---- MODULE Spec2Model ----
(***************************************************************************)
(* A model of the P4 type inference traversal (TypeInference), its         *)
(* assignment check, constant-type substitution, canonicalizer and call    *)
(* rules.  AST nodes live in a heap (`nodes`, a node's identity is its     *)
(* index); the registry (TypeMap) is `typeMap`, `lvals`, `ctcs`, `substs`. *)
(* The traversal is post-order: `stack` holds the nodes returned by the    *)
(* visits whose parent has not been visited yet.                           *)
(***************************************************************************)
EXTENDS Integers, Sequences, FiniteSets, TLC

VARIABLES
    nodes,      \* heap of AST nodes; identity = index
    typeMap,    \* registry: node -> recorded type (NoType when absent)
    lvals,      \* registry: nodes flagged isLValue
    ctcs,       \* registry: nodes flagged isCompileTimeConstant
    substs,     \* registry: accumulated type-variable bindings
    errs,       \* process-level error sink: <<position, message>>
    stack,      \* results of visited children awaiting their parent: [orig, res]
    program,    \* visited top-level statements: [orig, res]
    readOnly,   \* TypeInference::readOnly
    pc,         \* "run" | "done" | "bug"  (BUG() is fatal)
    mapUpdated, \* typeMap->updateMap(node) was performed by end_apply
    visits,     \* number of handler invocations so far
    fresh,      \* number of type variables allocated so far (new IR::Type_Var)
    uses,       \* history of the uses of callables: clones made and calls solved
    canonicalTypes, \* TypeMap's interning table (getCanonical)
    canonCalls, \* history of the canonicalize calls: [arg, res]
    methodArguments, \* TypeInference::methodArguments: expected argument counts
    last        \* observation of the last handler that ran

vars == <<nodes, typeMap, lvals, ctcs, substs, errs, stack, program,
          readOnly, pc, mapUpdated, visits, fresh, uses,
          canonicalTypes, canonCalls, methodArguments, last>>

----------------------------------------------------------------------------
(* Bounds *)

MaxVisits == 5      \* handler invocations per run
MaxStack == 3       \* depth of pending expression results
MaxStmts == 1       \* top-level statements per run
MaxCanonCalls == 2  \* canonicalize calls per run
MaxDepth == 3       \* nesting depth of the source type terms
MaxParams == 2      \* parameters of a container type

----------------------------------------------------------------------------
(* Types *)

NoType   == [k |-> "null"]
Bits(n, s) == [k |-> "Bits", n |-> n, s |-> s]
Boolean  == [k |-> "Boolean"]
Dontcare == [k |-> "Dontcare"]
Type_String == [k |-> "String"]
Type_Void == [k |-> "Void"]
Varbits(n) == [k |-> "Varbits", n |-> n]
InfInt(i) == [k |-> "InfInt", id |-> i]
TypeVar(i) == [k |-> "Var", id |-> i]

isITypeVar(t) == t.k \in {"InfInt", "Var"}

\* Callable types: type parameters, return type, parameters.  A parameter
\* carries its canonical type (canonicalizeParameters records it).
Param(name, dir, ty) == [name |-> name, dir |-> dir, ty |-> ty]
Type_Method(tps, ret, params) ==
    [k |-> "Method", tps |-> tps, ret |-> ret, params |-> params]
Type_Action(params) ==
    [k |-> "Action", tps |-> <<>>, ret |-> NoType, params |-> params]

Range(f) == {f[i] : i \in DOMAIN f}

\* The type variables a type mentions
VarsOf(t) ==
    IF t.k = "Var" THEN {t}
    ELSE IF t.k \in {"Method", "Action"}
         THEN Range(t.tps) \cup (IF t.ret.k = "Var" THEN {t.ret} ELSE {})
              \cup {q.ty : q \in {r \in Range(t.params) : r.ty.k = "Var"}}
    ELSE {}

----------------------------------------------------------------------------
(* AST nodes *)

\* kind; children a, b, c (0 = none); ty: the type a node carries in the
\* tree; v: a literal's value; dir: a parameter's direction; decl: the
\* declaration a path resolves to.
Node(kind, a, b, ty, v, dir, decl) ==
    [kind |-> kind, a |-> a, b |-> b, c |-> 0,
     ty |-> ty, v |-> v, dir |-> dir, decl |-> decl]

\* The declarations the path expressions of the program refer to
\* (resolved by the reference map); they were typed by an earlier visit.
Decls == <<
    Node("Declaration_Variable", 0, 0, Bits(8, FALSE),  0, "None",  0),
    Node("Declaration_Variable", 0, 0, Bits(16, FALSE), 0, "None",  0),
    Node("Declaration_Variable", 0, 0, Bits(16, TRUE),  0, "None",  0),
    Node("Parameter",            0, 0, Bits(8, FALSE),  0, "In",    0),
    \* action act(inout bit<8> p, bit<8> q)
    Node("P4Action", 0, 0,
         Type_Action(<<Param("p", "InOut", Bits(8, FALSE)),
                       Param("q", "None", Bits(8, FALSE))>>), 0, "None", 0),
    \* action nop()
    Node("P4Action", 0, 0, Type_Action(<<>>), 0, "None", 0),
    \* extern bit<8> f(in bit<8> x)
    Node("Method", 0, 0,
         Type_Method(<<>>, Bits(8, FALSE), <<Param("x", "In", Bits(8, FALSE))>>),
         0, "None", 0),
    \* extern T g<T>(in T x)
    Node("Method", 0, 0,
         Type_Method(<<TypeVar(1)>>, TypeVar(1), <<Param("x", "In", TypeVar(1))>>),
         0, "None", 0),
    \* extern T read<T>()
    Node("Method", 0, 0, Type_Method(<<TypeVar(2)>>, TypeVar(2), <<>>), 0, "None", 0),
    \* the instance IR::Type_Bits::get(8, false) hands out (v = 1: interned)
    Node("Type_Bits", 0, 0, Bits(8, FALSE), 1, "None", 0) >>

DeclIds == DOMAIN Decls
VarDecls == {d \in DeclIds : Decls[d].kind \in {"Declaration_Variable", "Parameter"}}
CalleeDecls == {d \in DeclIds : Decls[d].kind \in {"P4Action", "Method"}}

\* The type parameters the declarations introduce
DeclaredTypeVars == UNION {Range(Decls[d].ty.tps) : d \in CalleeDecls}

\* Types a literal can carry: two InfInt instances and sized ones.
ConstTypes == {InfInt(1), InfInt(2), Bits(8, FALSE)}
ConstValues == {1}

----------------------------------------------------------------------------
(* The registry and the heap, threaded through the handlers as a record *)

World == [nodes |-> nodes, typeMap |-> typeMap, lvals |-> lvals, ctcs |-> ctcs,
          substs |-> substs, errs |-> errs, fresh |-> fresh, uses |-> uses,
          canonicalTypes |-> canonicalTypes, methodArguments |-> methodArguments,
          bug |-> FALSE, unified |-> FALSE]

Alloc(W, nd) == [W EXCEPT !.nodes = Append(@, nd), !.typeMap = Append(@, NoType)]
NewId(W) == Len(W.nodes) + 1

getTypeOf(W, n) == W.typeMap[n]
setType(W, n, t) == [W EXCEPT !.typeMap[n] = t]
setLeftValue(W, n) == [W EXCEPT !.lvals = @ \cup {n}]
setCompileTimeConstant(W, n) == [W EXCEPT !.ctcs = @ \cup {n}]
isLeftValue(W, n) == n \in W.lvals
isCompileTimeConstant(W, n) == n \in W.ctcs
typeError(W, pos, msg) == [W EXCEPT !.errs = @ \cup {<<pos, msg>>}]
BUG(W) == [W EXCEPT !.bug = TRUE]

\* TypeInference::getType: a missing type is reported
getType(W, n) ==
    IF getTypeOf(W, n) = NoType THEN typeError(W, n, "Could not find type") ELSE W

----------------------------------------------------------------------------
(* Unification (TypeConstraints::solve, TypeMap::addSubstitutions) *)

\* A substitution is a set of bindings <<variable, type>>; a failed
\* unification has ok = FALSE.
Identity == [ok |-> TRUE, bind |-> {}]
Failure == [ok |-> FALSE, bind |-> {}]
Binding(v, t) == [ok |-> TRUE, bind |-> {<<v, t>>}]

isIdentity(tvs) == tvs.bind = {}

\* TypeVariableSubstitution::get / lookup
substGet(tvs, v) ==
    IF \E b \in tvs.bind : b[1] = v
    THEN (CHOOSE b \in tvs.bind : b[1] = v)[2]
    ELSE NoType

\* Equality constraint dest = src between non-compound types.
solve(dest, src) ==
    IF dest = src THEN Identity
    ELSE IF dest.k = "Dontcare" \/ src.k = "Dontcare" THEN Identity
    ELSE IF dest.k = "Var" THEN Binding(dest, src)
    ELSE IF src.k = "Var" THEN Binding(src, dest)
    ELSE IF dest.k = "InfInt"
         THEN IF src.k \in {"Bits", "InfInt"} THEN Binding(dest, src) ELSE Failure
    ELSE IF src.k = "InfInt"
         THEN IF dest.k = "Bits" THEN Binding(src, dest) ELSE Failure
    ELSE Failure

\* TypeMap::addSubstitutions: merge; a conflicting binding is fatal.
addSubstitutions(W, tvs) ==
    IF ~tvs.ok \/ isIdentity(tvs) THEN W
    ELSE IF \E b \in tvs.bind, c \in W.substs : b[1] = c[1] /\ b[2] # c[2]
         THEN BUG(W)
         ELSE [W EXCEPT !.substs = @ \cup tvs.bind]

\* TypeVariableSubstitutionVisitor on a non-compound type
substType(bind, t) ==
    IF \E b \in bind : b[1] = t THEN (CHOOSE b \in bind : b[1] = t)[2] ELSE t

\* TypeVariableSubstitutionVisitor on a callable type; replaceParams also
\* rewrites the type-parameter list.
substCallable(bind, t, replaceParams) ==
    [t EXCEPT !.tps = IF replaceParams
                      THEN [i \in DOMAIN t.tps |-> substType(bind, t.tps[i])]
                      ELSE t.tps,
              !.ret = substType(bind, t.ret),
              !.params = [i \in DOMAIN t.params |->
                             [t.params[i] EXCEPT !.ty = substType(bind, @)]]]

\* TypeConstraints::solve over a list of equality constraints <<dest, src>>
RECURSIVE solveAll(_, _)
solveAll(cs, acc) ==
    IF cs = <<>> THEN acc
    ELSE LET r == solve(substType(acc.bind, Head(cs)[1]),
                        substType(acc.bind, Head(cs)[2]))
         IN IF ~r.ok THEN Failure
            ELSE solveAll(Tail(cs), [ok |-> TRUE, bind |-> acc.bind \cup r.bind])

\* The Method / MethodCall constraint: equal arities, each parameter type
\* with its argument type, the return variable with the return type.
solveCall(ft, callType) ==
    IF Len(ft.params) # Len(callType.args) THEN Failure
    ELSE solveAll([i \in DOMAIN ft.params |-> <<ft.params[i].ty, callType.args[i].ty>>]
                      \o <<<<callType.ret, ft.ret>>>>,
                  Identity)

\* TypeInference::unify
unify(W, pos, destType, srcType, reportErrors) ==
    IF srcType = destType THEN [W |-> W, tvs |-> Identity]
    ELSE LET tvs == solve(destType, srcType)
             W1 == IF ~tvs.ok /\ reportErrors
                   THEN typeError(W, pos, "Cannot unify") ELSE W
             W2 == [addSubstitutions(W1, tvs) EXCEPT !.unified = TRUE]
         IN [W |-> W2, tvs |-> tvs]

----------------------------------------------------------------------------
(* Transform: a handler works on a clone of the node; an unchanged clone   *)
(* is dropped and the original stays in the tree.                          *)

Returned(W, orig, cur, result) ==
    IF result = cur /\ W.nodes[cur] = W.nodes[orig] THEN orig ELSE result

\* Deep structural equality of two trees (operator== of IR nodes)
RECURSIVE SameTree(_, _, _)
SameTree(ns, n, m) ==
    \/ n = m
    \/ /\ n # 0 /\ m # 0
       /\ [ns[n] EXCEPT !.a = 0, !.b = 0, !.c = 0] = [ns[m] EXCEPT !.a = 0, !.b = 0, !.c = 0]
       /\ SameTree(ns, ns[n].a, ns[m].a)
       /\ SameTree(ns, ns[n].b, ns[m].b)
       /\ SameTree(ns, ns[n].c, ns[m].c)

RECURSIVE InTree(_, _, _)
InTree(ns, n, root) ==
    /\ root # 0
    /\ \/ n = root
       \/ InTree(ns, n, ns[root].a)
       \/ InTree(ns, n, ns[root].b)
       \/ InTree(ns, n, ns[root].c)

\* The Constant nodes of a tree
RECURSIVE ConstantsOf(_, _)
ConstantsOf(ns, root) ==
    IF root = 0 THEN {}
    ELSE (IF ns[root].kind = "Constant" THEN {root} ELSE {})
         \cup ConstantsOf(ns, ns[root].a) \cup ConstantsOf(ns, ns[root].b)
         \cup ConstantsOf(ns, ns[root].c)

----------------------------------------------------------------------------
(* ConstantTypeSubstitution *)

\* A substitution pass that leaves every literal as it is
CTS_postorderConstant_keep(W, tvs, n) == [W |-> W, res |-> n]

\* postorder(IR::Constant*)
CTS_postorderConstant(W, tvs, n) ==
    LET cstType == getTypeOf(W, n) IN
    IF cstType = NoType THEN [W |-> BUG(W), res |-> n]
    ELSE IF ~isITypeVar(cstType) THEN [W |-> W, res |-> n]
    ELSE LET repl == substGet(tvs, cstType) IN
         IF repl # NoType /\ ~isITypeVar(repl)
         THEN LET W1 == Alloc(W, [W.nodes[n] EXCEPT !.ty = repl])
                  c == NewId(W)
              IN [W |-> setCompileTimeConstant(setType(W1, c, repl), c), res |-> c]
         ELSE [W |-> W, res |-> n]

\* postorder(IR::Expression*): the clone gets the original's type and
\* compile-time-constant flag.
CTS_postorderExpression(W, n, a, b, c) ==
    LET type == getTypeOf(W, n) IN
    IF type = NoType THEN [W |-> BUG(W), res |-> n]
    ELSE LET W1 == Alloc(W, [W.nodes[n] EXCEPT !.a = a, !.b = b, !.c = c])
             e == NewId(W)
             W2 == IF isCompileTimeConstant(W1, n)
                   THEN setCompileTimeConstant(W1, e) ELSE W1
             W3 == setType(W2, e, type)
         IN [W |-> W3, res |-> Returned(W3, n, e, e)]

\* convert: apply the transform to a whole expression tree
RECURSIVE CTS_convert(_, _, _)
CTS_convert(W, tvs, n) ==
    IF W.nodes[n].kind = "Constant" THEN CTS_postorderConstant(W, tvs, n)
    ELSE LET nd == W.nodes[n]
             Ra == IF nd.a # 0 THEN CTS_convert(W, tvs, nd.a) ELSE [W |-> W, res |-> 0]
             Rb == IF nd.b # 0 THEN CTS_convert(Ra.W, tvs, nd.b) ELSE [W |-> Ra.W, res |-> 0]
             Rc == IF nd.c # 0 THEN CTS_convert(Rb.W, tvs, nd.c) ELSE [W |-> Rb.W, res |-> 0]
         IN CTS_postorderExpression(Rc.W, n, Ra.res, Rb.res, Rc.res)

----------------------------------------------------------------------------
(* The assignment check *)

\* A cast rule that admits Bits to Bits of equal size only
canCastBetween_sizeOnly(dest, src) ==
    \/ src = dest
    \/ src.k = "Bits" /\ dest.k = "Bits" /\ src.n = dest.n

\* TypeInference::canCastBetween
canCastBetween(dest, src) ==
    IF src = dest THEN TRUE
    ELSE IF src.k = "Bits"
         THEN IF dest.k = "Bits" THEN (src.n = dest.n) \/ (src.s = dest.s)
              ELSE IF dest.k = "Boolean" THEN src.n = 1 /\ ~src.s
              ELSE FALSE
    ELSE IF src.k = "Boolean"
         THEN IF dest.k = "Bits" THEN dest.n = 1 /\ ~dest.s ELSE FALSE
    ELSE FALSE

\* An implicit cast that is always marked compile-time constant
insertCast_alwaysConst(W, destType, sourceExpression) ==
    LET W1 == Alloc(W, Node("Cast", sourceExpression, 0, destType, 0, "None", 0))
        c == NewId(W)
    IN [W |-> setCompileTimeConstant(setType(W1, c, destType), c), res |-> c]

\* The implicit cast inserted by the assignment check
insertCast(W, destType, sourceExpression) ==
    LET isConst == isCompileTimeConstant(W, sourceExpression)
        W1 == Alloc(W, Node("Cast", sourceExpression, 0, destType, 0, "None", 0))
        c == NewId(W)
        W2 == setType(W1, c, destType)
    IN [W |-> IF isConst THEN setCompileTimeConstant(W2, c) ELSE W2, res |-> c]

\* TypeInference::assignment: returns the (possibly rewritten) source
assignment(W, pos, destType, sourceExpression) ==
    LET initType == getTypeOf(W, sourceExpression) IN
    IF initType = NoType THEN [W |-> getType(W, sourceExpression), res |-> sourceExpression]
    ELSE IF initType = destType THEN [W |-> W, res |-> sourceExpression]
    ELSE IF canCastBetween(destType, initType)
         THEN insertCast(W, destType, sourceExpression)
    ELSE LET U == unify(W, pos, destType, initType, TRUE) IN
         IF ~U.tvs.ok THEN [W |-> U.W, res |-> sourceExpression]
         ELSE IF isIdentity(U.tvs) THEN [W |-> U.W, res |-> sourceExpression]
         ELSE CTS_convert(U.W, U.tvs, sourceExpression)

----------------------------------------------------------------------------
(* Fresh type variables *)

\* new IR::Type_Var
newTypeVar(W) == TypeVar(W.fresh + 1)

\* A clone that keeps the declared type variables
cloneWithFreshTypeVariables_shared(W, type) == [W |-> W, res |-> type]

\* TypeInference::cloneWithFreshTypeVariables
cloneWithFreshTypeVariables(W, type) ==
    LET n == Len(type.tps)
        tvs == {<<type.tps[i], TypeVar(W.fresh + i)>> : i \in 1..n}
        clone == substCallable(tvs, type, TRUE)
        use == [kind |-> "clone", of |-> Range(type.tps),
                fresh |-> {b[2] : b \in tvs}, used |-> {}, bound |-> {}]
    IN [W |-> [W EXCEPT !.fresh = @ + n, !.uses = Append(@, use)], res |-> clone]

----------------------------------------------------------------------------
(* Visitor methods.  Each takes the original node and the clone the        *)
(* traversal works on, and yields the new world and the node it returns.   *)

\* TypeInference::done
done(W, orig) == getTypeOf(W, orig) # NoType

\* postorder(IR::Constant*)
postorder_Constant(W, orig, expression) ==
    IF done(W, orig) THEN [W |-> W, res |-> expression]
    ELSE LET type == W.nodes[expression].ty
             W1 == setType(setType(W, orig, type), expression, type)
             W2 == setCompileTimeConstant(setCompileTimeConstant(W1, orig), expression)
         IN [W |-> W2, res |-> expression]

\* postorder(IR::DefaultExpression*)
postorder_DefaultExpression(W, orig, expression) ==
    LET W1 == IF ~done(W, orig)
              THEN setType(setType(W, expression, Dontcare), orig, Dontcare)
              ELSE W
        W2 == setCompileTimeConstant(setCompileTimeConstant(W1, expression), orig)
    IN [W |-> W2, res |-> expression]

\* postorder(IR::PathExpression*)
postorder_PathExpression(W, orig, expression) ==
    IF done(W, orig) THEN [W |-> W, res |-> expression]
    ELSE LET decl == W.nodes[expression].decl
             d == W.nodes[decl]
             both(V, set(_, _)) == set(set(V, expression), orig)
             W1 == IF d.kind = "Declaration_Variable" THEN both(W, setLeftValue)
                   ELSE IF d.kind = "Parameter"
                        THEN IF d.dir \in {"InOut", "Out"} THEN both(W, setLeftValue)
                             ELSE IF d.dir = "None" THEN both(W, setCompileTimeConstant)
                             ELSE W
                   ELSE IF d.kind \in {"Declaration_Constant", "Declaration_Instance"}
                        THEN both(W, setCompileTimeConstant)
                   ELSE W
             declType == getTypeOf(W1, decl)
             C == IF d.kind = "Method" /\ declType # NoType
                  THEN cloneWithFreshTypeVariables(W1, declType)
                  ELSE [W |-> W1, res |-> declType]
             type == C.res
         IN IF type = NoType THEN [W |-> getType(C.W, decl), res |-> expression]
            ELSE [W |-> setType(setType(C.W, orig, type), expression, type),
                  res |-> expression]

\* postorder(IR::StringLiteral*)
postorder_StringLiteral(W, orig, expression) ==
    IF done(W, orig) THEN [W |-> W, res |-> expression]
    ELSE [W |-> setType(setType(W, orig, Type_String), expression, Type_String),
          res |-> expression]

\* postorder(IR::BoolLiteral*)
postorder_BoolLiteral(W, orig, expression) ==
    IF done(W, orig) THEN [W |-> W, res |-> expression]
    ELSE LET W1 == setType(setType(W, orig, Boolean), expression, Boolean)
         IN [W |-> setCompileTimeConstant(setCompileTimeConstant(W1, orig), expression),
             res |-> expression]

\* postorder(IR::Cast*): the node carries the canonical type of its destType
postorder_Cast(W, orig, expression) ==
    LET nd == W.nodes[expression]
        sourceType == getTypeOf(W, nd.a)
        castType == nd.ty
        record(V, e) ==
            LET V1 == setType(setType(V, e, castType), orig, castType)
            IN IF isCompileTimeConstant(V1, V.nodes[e].a)
               THEN setCompileTimeConstant(setCompileTimeConstant(V1, e), orig)
               ELSE V1
    IN
    IF done(W, orig) THEN [W |-> W, res |-> expression]
    ELSE IF sourceType = NoType \/ castType = NoType
    THEN [W |-> IF sourceType = NoType THEN getType(W, nd.a) ELSE getType(W, expression),
          res |-> expression]
    ELSE IF canCastBetween(castType, sourceType)
    THEN [W |-> record(W, expression), res |-> expression]
    ELSE LET A == assignment(W, expression, castType, nd.a)
             rhs == A.res
         IN IF rhs # nd.a
            \* a substitution was performed on the operand: the new cast's
            \* source type is its destination type
            THEN LET W1 == Alloc(A.W, [nd EXCEPT !.a = rhs])
                     e == NewId(A.W)
                 IN [W |-> record(W1, e), res |-> e]
            ELSE [W |-> record(typeError(A.W, expression, "Illegal cast"), expression),
                  res |-> expression]

\* A width test that lets every pair of arms through
armsUnsized_never(secondType, thirdType) == FALSE

\* Mux: neither arm has a width
armsUnsized(secondType, thirdType) ==
    secondType.k = "InfInt" /\ thirdType.k = "InfInt"

\* Mux: both arms are converted by the substitution the unification found,
\* and the type is read again from the first arm
convertArms(W, tvs, expression) ==
    LET nd == W.nodes[expression]
        E1 == CTS_convert(W, tvs, nd.b)
        E2 == CTS_convert(E1.W, tvs, nd.c)
    IN [W |-> [E2.W EXCEPT !.nodes[expression] = [nd EXCEPT !.b = E1.res, !.c = E2.res]],
        type |-> getTypeOf(E2.W, E1.res)]

\* Mux: the type is recorded for the node and for its original, and the
\* expression is a compile-time constant if its three operands are
muxRecord(R, orig, expression) ==
    LET e == R.W.nodes[expression]
        W2 == setType(setType(R.W, expression, R.type), orig, R.type)
    IN
    IF /\ isCompileTimeConstant(W2, e.a)
       /\ isCompileTimeConstant(W2, e.b)
       /\ isCompileTimeConstant(W2, e.c)
    THEN setCompileTimeConstant(setCompileTimeConstant(W2, expression), orig)
    ELSE W2

\* postorder(IR::Mux*): a: e0, b: e1, c: e2
postorder_Mux(W, orig, expression) ==
    LET nd == W.nodes[expression]
        firstType == getTypeOf(W, nd.a)
        secondType == getTypeOf(W, nd.b)
        thirdType == getTypeOf(W, nd.c)
        U == unify(W, expression, secondType, thirdType, TRUE)
    IN
    IF done(W, orig) THEN [W |-> W, res |-> expression]
    ELSE IF firstType = NoType \/ secondType = NoType \/ thirdType = NoType
    THEN [W |-> getType(getType(getType(W, nd.a), nd.b), nd.c), res |-> expression]
    ELSE IF firstType # Boolean
    THEN [W |-> typeError(W, expression, "Selector must be bool"), res |-> expression]
    ELSE IF armsUnsized(secondType, thirdType)
    THEN [W |-> typeError(W, expression, "Width must be specified for at least one"),
          res |-> expression]
    ELSE IF ~U.tvs.ok THEN [W |-> U.W, res |-> expression]
    ELSE IF isIdentity(U.tvs)
    THEN [W |-> muxRecord([W |-> U.W, type |-> secondType], orig, expression),
          res |-> expression]
    ELSE [W |-> muxRecord(convertArms(U.W, U.tvs, expression), orig, expression),
          res |-> expression]

\* The common tail of the binary rules: record the type and propagate
\* compile-time-constantness from the operands.
recordBinary(W, orig, expression, resultType) ==
    LET W1 == setType(setType(W, orig, resultType), expression, resultType)
        nd == W1.nodes[expression]
    IN IF isCompileTimeConstant(W1, nd.a) /\ isCompileTimeConstant(W1, nd.b)
       THEN setCompileTimeConstant(setCompileTimeConstant(W1, expression), orig)
       ELSE W1

\* The rewrite of an InfInt literal operand to the other operand's type:
\* e = expression->clone(); e->left/right = new IR::Constant(..., type, ...)
narrowOperand(W, expression, left, type) ==
    LET nd == W.nodes[expression]
        cst == IF left THEN nd.a ELSE nd.b
    IN IF W.nodes[cst].kind # "Constant" THEN [W |-> BUG(W), res |-> expression]
       ELSE LET W1 == Alloc(W, [W.nodes[cst] EXCEPT !.ty = type])
                c == NewId(W)
                W2 == Alloc(W1, IF left THEN [nd EXCEPT !.a = c] ELSE [nd EXCEPT !.b = c])
                e == NewId(W1)
            IN [W |-> setType(W2, c, type), res |-> e]

\* TypeInference::binaryArith  (+, -, * )
binaryArith(W, orig, expression) ==
    IF done(W, orig) THEN [W |-> W, res |-> expression]
    ELSE LET nd == W.nodes[expression]
             ltype == getTypeOf(W, nd.a)
             rtype == getTypeOf(W, nd.b)
         IN
         IF ltype = NoType \/ rtype = NoType
         THEN [W |-> getType(getType(W, nd.a), nd.b), res |-> expression]
         ELSE IF ltype.k # "Bits" /\ ltype.k # "InfInt"
         THEN [W |-> typeError(W, orig, "cannot be applied to left"), res |-> expression]
         ELSE IF rtype.k # "Bits" /\ rtype.k # "InfInt"
         THEN [W |-> typeError(W, orig, "cannot be applied to right"), res |-> expression]
         ELSE IF ltype.k = "Bits" /\ rtype.k = "Bits"
         THEN IF ltype.n # rtype.n
              THEN [W |-> typeError(W, orig, "different widths"), res |-> expression]
              ELSE IF ltype.s # rtype.s
              THEN [W |-> typeError(W, orig, "different signs"), res |-> expression]
              ELSE [W |-> recordBinary(W, orig, expression, ltype), res |-> expression]
         ELSE IF ltype.k # "Bits" /\ rtype.k = "Bits"
         THEN LET R == narrowOperand(W, expression, TRUE, rtype) IN
              IF R.W.bug THEN R
              ELSE [W |-> recordBinary(R.W, orig, R.res, rtype), res |-> R.res]
         ELSE IF ltype.k = "Bits" /\ rtype.k # "Bits"
         THEN LET R == narrowOperand(W, expression, FALSE, ltype) IN
              IF R.W.bug THEN R
              ELSE [W |-> recordBinary(R.W, orig, R.res, ltype), res |-> R.res]
         ELSE [W |-> recordBinary(W, orig, expression, ltype), res |-> expression]

\* TypeMap::equivalent: structural equality; InfInt is one type
equivalent(a, b) == IF a.k = "InfInt" THEN b.k = "InfInt" ELSE a = b

\* A hierarchy in which no type is a base type
isTypeBase_none(t) == FALSE

\* is<IR::Type_Base>(): the sized types and the singletons that
\* canonicalize returns unchanged in its Type_Base branch
isTypeBase(t) == t.k \in {"Bits", "Varbits", "Boolean", "String", "Void", "Dontcare", "State"}

\* ==, !=: the two branches that define the comparison
equFirstBranch(ltype, rtype) ==
    equivalent(ltype, rtype) /\ ltype.k # "Void" /\ ltype.k # "Varbits"
equSecondBranch(ltype, rtype) ==
    isTypeBase(ltype) /\ isTypeBase(rtype) /\ equivalent(ltype, rtype)

\* The test of a comparison over the operand types left after the rewrite
\* R of an InfInt operand
relationChecked(R, orig, ltype, rtype, equTest) ==
    IF R.W.bug THEN R
    ELSE IF equTest /\ ~(equFirstBranch(ltype, rtype) \/ equSecondBranch(ltype, rtype))
    THEN [W |-> typeError(R.W, R.res, "not defined on"), res |-> R.res]
    ELSE IF ~equTest /\ (ltype.k # "Bits" \/ rtype.k # "Bits" \/ ltype # rtype)
    THEN [W |-> typeError(R.W, R.res, "not defined on"), res |-> R.res]
    ELSE [W |-> recordBinary(R.W, orig, R.res, Boolean), res |-> R.res]

\* postorder(IR::Operation_Relation*)  (==, !=, <, <=, >, >=)
postorder_Relation(W, orig, expression, equTest) ==
    IF done(W, orig) THEN [W |-> W, res |-> expression]
    ELSE LET nd == W.nodes[expression]
             ltype == getTypeOf(W, nd.a)
             rtype == getTypeOf(W, nd.b)
         IN
         IF ltype = NoType \/ rtype = NoType
         THEN [W |-> getType(getType(W, nd.a), nd.b), res |-> expression]
         ELSE IF ltype.k = "InfInt" /\ rtype.k = "Bits"
         THEN relationChecked(narrowOperand(W, expression, TRUE, rtype),
                              orig, rtype, rtype, equTest)
         ELSE IF rtype.k = "InfInt" /\ ltype.k = "Bits"
         THEN relationChecked(narrowOperand(W, expression, FALSE, ltype),
                              orig, ltype, ltype, equTest)
         ELSE relationChecked([W |-> W, res |-> expression], orig, ltype, rtype, equTest)

\* Type_Header and Type_Stack; a field is [name, ty], names are IDs
Type_Header(fields) == [k |-> "Header", fields |-> fields]
Type_Stack(elementType, size) == [k |-> "Stack", elementType |-> elementType, size |-> size]
Member_f == 1     \* a field of the header
Member_g == 2     \* no field of the header
Stack_next == 3   \* IR::Type_Stack::next
Stack_last == 4   \* IR::Type_Stack::last

\* A rule that makes every member of an l-value stack an l-value
stackMemberIsLeftValue_any(W, expr, member) == isLeftValue(W, expr)

\* Member on a stack: isLeftValue(expression->expr) && member == next
stackMemberIsLeftValue(W, expr, member) ==
    isLeftValue(W, expr) /\ member = Stack_next

\* The flags an expression inherits from its receiver
inheritLeftValue(W, orig, expression, inherits) ==
    IF inherits THEN setLeftValue(setLeftValue(W, expression), orig) ELSE W
inheritCompileTimeConstant(W, orig, expression, inherits) ==
    IF inherits THEN setCompileTimeConstant(setCompileTimeConstant(W, expression), orig)
    ELSE W

\* postorder(IR::Member*) on receivers of struct-like and of stack type (v
\* holds the member; inControl: findContext<IR::P4Control>() != nullptr)
postorder_Member(W, orig, expression, inControl) ==
    LET nd == W.nodes[expression]
        type == getTypeOf(W, nd.a)
        member == nd.v
        found == {i \in DOMAIN type.fields : type.fields[i].name = member}
        fieldType == type.fields[CHOOSE i \in found : TRUE].ty
        W1 == IF inControl
              THEN typeError(W, expression, "'last' and 'next' cannot be used in a control")
              ELSE W
    IN
    IF done(W, orig) THEN [W |-> W, res |-> expression]
    ELSE IF type = NoType THEN [W |-> getType(W, nd.a), res |-> expression]
    ELSE IF type.k = "Header"
    THEN IF found = {}
         THEN [W |-> typeError(W, expression, "does not have a field"), res |-> expression]
         ELSE [W |-> inheritCompileTimeConstant(
                         inheritLeftValue(
                             setType(setType(W, orig, fieldType), expression, fieldType),
                             orig, expression, isLeftValue(W, nd.a)),
                         orig, expression, isCompileTimeConstant(W, nd.a)),
               res |-> expression]
    ELSE IF type.k = "Stack" /\ member \in {Stack_next, Stack_last}
    THEN [W |-> inheritLeftValue(
                    setType(setType(W1, orig, type.elementType), expression,
                            type.elementType),
                    orig, expression, stackMemberIsLeftValue(W, nd.a, member)),
          res |-> expression]
    ELSE [W |-> typeError(W, expression, "Cannot extract field"), res |-> expression]

\* postorder(IR::Slice*): a: e0, b: e1 (msb), c: e2 (lsb)
postorder_Slice(W, orig, expression) ==
    LET nd == W.nodes[expression]
        type == getTypeOf(W, nd.a)
        msb == W.nodes[nd.b]
        lsb == W.nodes[nd.c]
        result == Bits(msb.v - lsb.v + 1, type.s)
        err(pos, msg) == [W |-> typeError(W, pos, msg), res |-> expression]
    IN
    IF done(W, orig) THEN [W |-> W, res |-> expression]
    ELSE IF type = NoType THEN [W |-> getType(W, nd.a), res |-> expression]
    ELSE IF type.k # "Bits" THEN err(expression, "bit extraction only defined for bit<> types")
    ELSE IF msb.kind # "Constant" \/ lsb.kind # "Constant"
    THEN err(expression, "bit index values must be constants")
    ELSE IF msb.v < 0 \/ lsb.v < 0 THEN err(nd.b, "negative bit index")
    ELSE IF msb.v >= type.n \/ lsb.v >= type.n THEN err(nd.b, "Bit index greater than width")
    ELSE IF lsb.v > msb.v THEN err(nd.c, "LSB index greater than MSB index")
    ELSE [W |-> inheritCompileTimeConstant(
                    inheritLeftValue(
                        setType(setType(W, orig, result), expression, result),
                        orig, expression, isLeftValue(W, nd.a)),
                    orig, expression, isCompileTimeConstant(W, nd.a)),
          res |-> expression]

\* postorder(IR::ArrayIndex*): the l-value flag is set before the index is
\* checked
postorder_ArrayIndex(W, orig, expression) ==
    LET nd == W.nodes[expression]
        ltype == getTypeOf(W, nd.a)
        rtype == getTypeOf(W, nd.b)
        cst == W.nodes[nd.b]
        rightOpConstant == cst.kind = "Constant"
        W1 == inheritLeftValue(W, orig, expression, isLeftValue(W, nd.a))
    IN
    IF done(W, orig) THEN [W |-> W, res |-> expression]
    ELSE IF ltype = NoType \/ rtype = NoType
    THEN [W |-> getType(getType(W, nd.a), nd.b), res |-> expression]
    ELSE IF ltype.k # "Stack"
    THEN [W |-> typeError(W, expression, "Array indexing applied to non-array type"),
          res |-> expression]
    ELSE IF rtype.k # "Bits" /\ ~rightOpConstant
    THEN [W |-> typeError(W, nd.b, "Array index must be an integer"), res |-> expression]
    ELSE IF rightOpConstant /\ cst.v < 0
    THEN [W |-> typeError(W1, nd.b, "Negative array index"), res |-> expression]
    ELSE IF rightOpConstant /\ ltype.size > 0 /\ cst.v >= ltype.size
    THEN [W |-> typeError(W1, nd.b, "Array index larger or equal to array size"),
          res |-> expression]
    ELSE [W |-> setType(setType(W1, orig, ltype.elementType), expression,
                        ltype.elementType),
          res |-> expression]

Type_MatchKind == [k |-> "MatchKind"]

\* postorder(IR::KeyElement*): a: expression, b: matchType.  ktype is used
\* without a test for null; nullDeref is what the call through the null
\* pointer does in the build: "fault" (the process dies) or "survived"
\* (is<T>() yields false and the message is printed).
postorder_KeyElement(W, elem, nullDeref) ==
    LET nd == W.nodes[elem]
        ktype == getTypeOf(W, nd.a)
        type == getTypeOf(W, nd.b)
        W0 == getType(W, nd.a)
        W1 == IF ktype.k \notin {"Bits", "Enum", "Error", "Boolean"}
              THEN typeError(W0, nd.a, "Key field type must be a scalar type")
              ELSE W0
        W2 == getType(W1, nd.b)
    IN IF ktype = NoType /\ nullDeref = "fault" THEN BUG(W0)
       ELSE IF type # NoType /\ type # Type_MatchKind
       THEN typeError(W2, nd.b, "must be a match_kind value")
       ELSE W2

\* TypeInference::shift  (<<, >>)
shift(W, orig, expression) ==
    IF done(W, orig) THEN [W |-> W, res |-> expression]
    ELSE LET nd == W.nodes[expression]
             ltype == getTypeOf(W, nd.a)
             rtype == getTypeOf(W, nd.b)
             r == W.nodes[nd.b]
         IN
         IF ltype = NoType \/ rtype = NoType
         THEN [W |-> getType(getType(W, nd.a), nd.b), res |-> expression]
         ELSE IF ltype.k # "Bits"
         THEN [W |-> typeError(W, orig, "left operand of shift"), res |-> expression]
         ELSE IF r.kind = "Constant" /\ r.v < 0
         THEN [W |-> typeError(W, orig, "Negative shift amount"), res |-> expression]
         ELSE IF rtype.k = "Bits" /\ rtype.s
         THEN [W |-> typeError(W, orig, "Shift amount must be unsigned"), res |-> expression]
         ELSE [W |-> recordBinary(W, orig, expression, ltype), res |-> expression]

\* An assignment statement that accepts any target
assignTargetIsLeftValue_any(W, left) == TRUE

\* The l-value test of the assignment statement
assignTargetIsLeftValue(W, left) == isLeftValue(W, left)

\* postorder(IR::AssignmentStatement*)
postorder_AssignmentStatement(W, orig, assign) ==
    LET nd == W.nodes[assign]
        ltype == getTypeOf(W, nd.a)
    IN
    IF ltype = NoType THEN [W |-> getType(W, nd.a), res |-> assign, asg |-> FALSE]
    ELSE IF ~assignTargetIsLeftValue(W, nd.a)
    THEN [W |-> typeError(W, orig, "cannot be the target of an assignment"),
          res |-> assign, asg |-> FALSE]
    ELSE LET R == assignment(W, orig, ltype, nd.b) IN
         IF R.res # nd.b
         THEN [W |-> Alloc(R.W, [nd EXCEPT !.b = R.res]), res |-> NewId(R.W), asg |-> TRUE]
         ELSE [W |-> R.W, res |-> assign, asg |-> TRUE]

----------------------------------------------------------------------------
(* Calls *)

\* The arguments of a call node
argsOf(nd) ==
    (IF nd.b # 0 THEN <<nd.b>> ELSE <<>>) \o (IF nd.c # 0 THEN <<nd.c>> ELSE <<>>)

\* An unbound parameter is an error only when it has a direction
unboundIsError_dirOnly(p, inActionList) == p.dir # "None"

\* The test on a parameter that received no argument
unboundIsError(p, inActionList) == p.dir # "None" \/ ~inActionList

\* The parameters of the result of an action call (mutant: all declared ones)
actionResultParams_all(params, k) == params

\* The parameters the loop of actionCall pushes: those reached after the
\* arguments ran out
actionResultParams(params, k) ==
    [i \in 1..(IF k < Len(params) THEN Len(params) - k ELSE 0) |-> params[k + i]]

\* TypeInference::actionCall
actionCall(W, orig, call, inActionList) ==
    LET nd == W.nodes[call]
        baseType == getTypeOf(W, nd.a)
        params == baseType.params
        arguments == argsOf(nd)
        n == Len(params)
        k == Len(arguments)
        bound == 1..(IF k < n THEN k ELSE n)
        unbound == (k + 1)..n
        argType(i) == getTypeOf(W, arguments[i])
        untyped == {i \in bound : argType(i) = NoType}
        E == {<<orig, "must be bound">> :
                 i \in {j \in unbound : unboundIsError(params[j], inActionList)}}
             \cup {<<arguments[i], "Could not find type">> : i \in untyped}
             \cup {<<arguments[i], "cannot be bound: it is set by the control plane">> :
                      i \in {j \in bound : params[j].dir = "None" /\ inActionList}}
             \cup {<<arguments[i], "must be a left-value">> :
                      i \in {j \in bound : /\ params[j].dir \in {"Out", "InOut"}
                                            /\ ~isLeftValue(W, arguments[j])}}
             \cup (IF k > n THEN {<<arguments[n + 1], "Too many arguments for action">>}
                   ELSE {})
        resultType == Type_Action(actionResultParams(params, k))
        W1 == [W EXCEPT !.errs = @ \cup E]
        W2 == setType(setType(W1, orig, resultType), call, resultType)
    IN
    \* a constraint on a missing type is fatal (CHECK_NULL)
    IF untyped # {} THEN [W |-> BUG(W1), res |-> call]
    ELSE LET tvs == solveAll([i \in bound |-> <<params[i].ty, argType(i)>>], Identity)
             W3 == IF ~tvs.ok THEN typeError(W2, orig, "Cannot unify") ELSE W2
             W4 == addSubstitutions(W3, tvs)
         IN IF ~tvs.ok THEN [W |-> W4, res |-> call]
            ELSE LET R == CTS_convert(W4, tvs, call)
                 IN [W |-> setType(R.W, R.res, resultType), res |-> R.res]

\* preorder(IR::MethodCallExpression*): method resolution is by the number
\* of arguments
preorder_MethodCallExpression(W, expression) ==
    [W EXCEPT !.methodArguments = Append(@, Len(argsOf(W.nodes[expression])))]

\* methodArguments.pop_back()
pop_back(W) ==
    [W EXCEPT !.methodArguments = SubSeq(@, 1, Len(@) - 1)]

\* postorder(IR::MethodCallExpression*), "Solving method call"
solveMethodCall(W, orig, expression, inActionsList) ==
    LET nd == W.nodes[expression]
        methodType == getTypeOf(W, nd.a)
        arguments == argsOf(nd)
    IN
    IF methodType = NoType THEN [W |-> getType(W, nd.a), res |-> expression]
    ELSE IF methodType.k \notin {"Method", "Action"}
    THEN [W |-> typeError(W, orig, "is not a method"), res |-> expression]
    ELSE IF methodType.k = "Action" THEN actionCall(W, orig, expression, inActionsList)
    ELSE LET rettype == newTypeVar(W)
             W1 == [W EXCEPT !.fresh = @ + 1]
             untyped == {i \in DOMAIN arguments : getTypeOf(W, arguments[i]) = NoType}
         IN
         IF untyped # {}
         THEN [W |-> getType(W1, arguments[CHOOSE i \in untyped : \A j \in untyped : i <= j]),
               res |-> expression]
         ELSE LET callType ==
                      [k |-> "MethodCall", ret |-> rettype,
                       args |-> [i \in DOMAIN arguments |->
                                    [leftValue |-> isLeftValue(W, arguments[i]),
                                     compileTimeConstant |->
                                         isCompileTimeConstant(W, arguments[i]),
                                     ty |-> getTypeOf(W, arguments[i])]]]
                  tvs == solveCall(methodType, callType)
                  use == [kind |-> "call", of |-> {}, fresh |-> {rettype},
                          used |-> VarsOf(methodType) \cup {rettype},
                          bound |-> {b[1] : b \in tvs.bind}]
                  W2 == IF ~tvs.ok THEN typeError(W1, orig, "Cannot unify") ELSE W1
                  W3 == [addSubstitutions(W2, tvs) EXCEPT !.uses = Append(@, use)]
                  returnType == substGet(tvs, rettype)
              IN
              IF ~tvs.ok THEN [W |-> W3, res |-> expression]
              ELSE IF returnType = NoType
              THEN [W |-> typeError(W3, orig, "Cannot infer return type"),
                    res |-> expression]
              ELSE LET W4 == setType(setType(W3, orig, returnType), expression, returnType)
                       R == CTS_convert(W4, tvs, expression)
                   IN [W |-> setType(R.W, R.res, returnType), res |-> R.res]

\* postorder(IR::MethodCallExpression*)
postorder_MethodCallExpression(W, orig, expression, inActionsList) ==
    IF done(W, orig) THEN [W |-> W, res |-> expression]
    ELSE solveMethodCall(pop_back(W), orig, expression, inActionsList)


----------------------------------------------------------------------------
(* Select expressions *)

\* The type of a selector: a tuple of component types
SelectTuple(components) == [k |-> "Tuple", components |-> components]
Type_State == [k |-> "State"]

\* The null pointer among the cases of a select expression
NullCase == -1

\* matchCase: return nullptr
matchFailed(W, selectCase) == [W |-> W, res |-> NullCase]

\* matchCase after the conversion of the keyset
matchConverted(R, selectCase) ==
    IF R.res # R.W.nodes[selectCase].a
    THEN [W |-> Alloc(R.W, [R.W.nodes[selectCase] EXCEPT !.a = R.res]),
          res |-> NewId(R.W)]
    ELSE [W |-> R.W, res |-> selectCase]

\* matchCase after the unification
matchUnified(U, selectCase) ==
    IF ~U.tvs.ok THEN matchFailed(U.W, selectCase)
    ELSE matchConverted(CTS_convert(U.W, U.tvs, U.W.nodes[selectCase].a), selectCase)

\* TypeInference::matchCase.  A SelectCase node: a: keyset, v: state.
\* Tuple-typed case labels are not among the inputs.
matchCase(W, select, selectType, selectCase, type) ==
    LET caseType == IF type.k = "Set" THEN type.e ELSE type
    IN IF caseType.k = "Dontcare" THEN [W |-> W, res |-> selectCase]
       ELSE IF caseType.k # "Tuple" /\ Len(selectType.components) # 1
       THEN matchFailed(typeError(W, W.nodes[select].a, "Type mismatch"), selectCase)
       ELSE matchUnified(unify(W, select,
                               IF caseType.k # "Tuple" THEN selectType.components[1]
                               ELSE selectType,
                               caseType, TRUE),
                         selectCase)

\* One iteration of the loop over the cases: stop when the keyset has no type
selectCaseMatched(W, expression, sc) ==
    LET type == getTypeOf(W, W.nodes[sc].a)
    IN IF type = NoType
       THEN [W |-> getType(W, W.nodes[sc].a), res |-> sc, stop |-> TRUE]
       ELSE LET M == matchCase(W, expression, getTypeOf(W, W.nodes[expression].a), sc, type)
            IN [W |-> M.W, res |-> M.res, stop |-> FALSE]

\* After the loop: the expression is rebuilt when a case changed
selectTyped(W, orig, expression, vec) ==
    LET changes == vec # argsOf(W.nodes[expression])
        W1 == IF changes
              THEN Alloc(W, [W.nodes[expression] EXCEPT
                                !.b = IF Len(vec) >= 1 THEN vec[1] ELSE 0,
                                !.c = IF Len(vec) >= 2 THEN vec[2] ELSE 0])
              ELSE W
        e == IF changes THEN NewId(W) ELSE expression
    IN [W |-> setType(setType(W1, e, Type_State), orig, Type_State), res |-> e]

selectSecond(M2, first, orig, expression) ==
    IF M2.stop THEN [W |-> M2.W, res |-> expression]
    ELSE selectTyped(M2.W, orig, expression, <<first, M2.res>>)

selectFirst(M1, orig, expression) ==
    IF M1.stop THEN [W |-> M1.W, res |-> expression]
    ELSE IF M1.W.nodes[expression].c = 0
    THEN selectTyped(M1.W, orig, expression, <<M1.res>>)
    ELSE selectSecond(selectCaseMatched(M1.W, expression, M1.W.nodes[expression].c),
                      M1.res, orig, expression)

\* postorder(IR::SelectExpression*).  a: select, b, c: selectCases.
postorder_SelectExpression(W, orig, expression) ==
    LET nd == W.nodes[expression]
        selectType == getTypeOf(W, nd.a)
    IN IF done(W, orig) THEN [W |-> W, res |-> expression]
       ELSE IF selectType = NoType THEN [W |-> getType(W, nd.a), res |-> expression]
       ELSE IF selectType.k # "Tuple" THEN [W |-> BUG(W), res |-> expression]
       ELSE IF \E i \in DOMAIN selectType.components : isITypeVar(selectType.components[i])
       THEN [W |-> typeError(W, nd.a, "Cannot infer type"), res |-> expression]
       ELSE IF nd.b = 0 THEN selectTyped(W, orig, expression, <<>>)
       ELSE selectFirst(selectCaseMatched(W, expression, nd.b), orig, expression)

----------------------------------------------------------------------------
(* Constructor calls.  A constructible type carries the type of its         *)
(* constructor (ctor); a ConstructorCallExpression node carries the         *)
(* canonical type of its constructedType (ty) and its arguments (b, c).     *)

Type_Extern(tps, ctor) == [k |-> "Type_Extern", tps |-> tps, ctor |-> ctor]
Type_Package(ctor) == [k |-> "Type_Package", tps |-> <<>>, ctor |-> ctor]

\* TypeInference::checkExternConstructor: the new arguments, or ok = FALSE
\* for nullptr
RECURSIVE checkConstructorArgs(_, _, _, _, _)
RECURSIVE checkedConstructorArg(_, _, _, _, _)
\* The argument after the unification U of its type with the parameter's
checkedConstructorArg(U, pos, params, arguments, result) ==
    LET arg == Head(arguments)
        R == CTS_convert(U.W, U.tvs, arg)
    IN IF ~U.tvs.ok THEN [W |-> U.W, ok |-> FALSE, res |-> result]
       ELSE IF isIdentity(U.tvs)
       THEN checkConstructorArgs(U.W, pos, Tail(params), Tail(arguments),
                                 Append(result, arg))
       ELSE checkConstructorArgs(setType(R.W, R.res, Head(params).ty), pos, Tail(params),
                                 Tail(arguments), Append(result, R.res))

checkConstructorArgs(W, pos, params, arguments, result) ==
    IF params = <<>> THEN [W |-> W, ok |-> TRUE, res |-> result]
    ELSE LET arg == Head(arguments)
             W1 == IF ~isCompileTimeConstant(W, arg)
                   THEN typeError(W, arg, "cannot evaluate to a compile-time constant")
                   ELSE W
             argType == getTypeOf(W, arg)
         IN IF argType = NoType THEN [W |-> getType(W1, arg), ok |-> FALSE, res |-> result]
            ELSE checkedConstructorArg(unify(W1, pos, Head(params).ty, argType, TRUE),
                                       pos, params, arguments, result)

checkExternConstructor(W, pos, ext, arguments) ==
    IF ext.tps # <<>>
    THEN [W |-> typeError(W, pos, "Type parameters must be supplied for constructor"),
          ok |-> FALSE, res |-> arguments]
    \* lookupMethod(name, arguments->size())
    ELSE IF Len(ext.ctor.params) # Len(arguments)
    THEN [W |-> typeError(W, pos, "has no constructor with these arguments"),
          ok |-> FALSE, res |-> arguments]
    ELSE LET C == cloneWithFreshTypeVariables(W, ext.ctor)
         IN checkConstructorArgs(C.W, pos, C.res.params, arguments, <<>>)

\* TypeInference::containerInstantiation: the type of the instance, or
\* NoType for nullptr
containerInstantiation(W, node, constructorArguments, container) ==
    LET C == cloneWithFreshTypeVariables(W, container.ctor)
        constructor == C.res
        notConst == {i \in DOMAIN constructorArguments :
                        ~isCompileTimeConstant(W, constructorArguments[i])}
        untyped == {i \in DOMAIN constructorArguments :
                       getTypeOf(W, constructorArguments[i]) = NoType}
        firstUntyped == CHOOSE i \in untyped : \A j \in untyped : i <= j
        reported(upTo) ==
            [C.W EXCEPT !.errs = @ \cup
                {<<constructorArguments[i], "cannot evaluate to a compile-time constant">> :
                    i \in {j \in notConst : j <= upTo}}]
        rettype == newTypeVar(C.W)
        callType == [k |-> "MethodCall", ret |-> rettype,
                     args |-> [i \in DOMAIN constructorArguments |->
                                  [leftValue |-> TRUE, compileTimeConstant |-> TRUE,
                                   ty |-> getTypeOf(W, constructorArguments[i])]]]
        tvs == solveCall(constructor, callType)
        W1 == [reported(Len(constructorArguments)) EXCEPT !.fresh = @ + 1]
        W2 == IF ~tvs.ok THEN typeError(W1, node, "Cannot unify") ELSE W1
    IN IF untyped # {}
       THEN [W |-> getType(reported(firstUntyped), constructorArguments[firstUntyped]),
             res |-> NoType]
       ELSE IF ~tvs.ok THEN [W |-> W2, res |-> NoType]
       ELSE [W |-> addSubstitutions(W2, tvs), res |-> substGet(tvs, rettype)]

\* A constructor call handler that never marks the call
markConstructorCall_never(W, orig, expression) == W

\* The tail of postorder(IR::ConstructorCallExpression*)
markConstructorCall(W, orig, expression) ==
    setCompileTimeConstant(setCompileTimeConstant(W, expression), orig)

\* Type_Extern: the call, with the arguments A the constructor check
\* returned, has the type of the extern
externConstructed(A, orig, expression) ==
    LET nd == A.W.nodes[expression]
        at(i) == IF i <= Len(A.res) THEN A.res[i] ELSE 0
        changed == A.res # argsOf(nd)
        W1 == IF changed
              THEN Alloc(A.W, [nd EXCEPT !.b = at(1), !.c = at(2)]) ELSE A.W
        e == IF changed THEN NewId(A.W) ELSE expression
    IN IF ~A.ok THEN [W |-> A.W, res |-> expression]
       ELSE [W |-> markConstructorCall(setType(setType(W1, orig, nd.ty), e, nd.ty),
                                       orig, e),
             res |-> e]

\* Type_Package: the call has the type I the instantiation returned
packageConstructed(I, orig, expression) ==
    IF I.res = NoType THEN [W |-> I.W, res |-> expression]
    ELSE [W |-> markConstructorCall(
                    setType(setType(I.W, expression, I.res), orig, I.res),
                    orig, expression),
          res |-> expression]

\* postorder(IR::ConstructorCallExpression*)
postorder_ConstructorCallExpression(W, orig, expression) ==
    LET nd == W.nodes[expression]
        type == nd.ty
        arguments == argsOf(nd)
    IN
    IF done(W, orig) THEN [W |-> W, res |-> expression]
    ELSE IF type = NoType
    THEN [W |-> typeError(W, expression, "Could not find type"), res |-> expression]
    ELSE IF type.k = "Type_Extern"
    THEN externConstructed(checkExternConstructor(W, expression, type, arguments),
                           orig, expression)
    ELSE IF type.k = "Type_Package"
    THEN packageConstructed(containerInstantiation(W, expression, arguments, type),
                            orig, expression)
    ELSE [W |-> markConstructorCall(
                    typeError(W, expression, "Cannot invoke a constructor on type"),
                    orig, expression),
          res |-> expression]

----------------------------------------------------------------------------
(* The canonicalizer.  Type nodes live in the heap like every other node: *)
(* Type_Bits (ty holds size and sign), Type_Set (a: element type),         *)
(* Type_Tuple (a, b: components).  0 is nullptr.                           *)

Type_Type(t) == [k |-> "Type_Type", type |-> t]

\* IR::Type_Bits::get: the one interned instance of a size and sign
Type_Bits_get(W, size, isSigned) ==
    CHOOSE i \in DOMAIN W.nodes :
        /\ W.nodes[i].kind = "Type_Bits"
        /\ W.nodes[i].ty = Bits(size, isSigned)
        /\ W.nodes[i].v = 1

\* TypeMap::getCanonical: the stored equivalent type, else the type
\* itself, which is then stored.
getCanonical(W, type) ==
    LET same == {t \in W.canonicalTypes : SameTree(W.nodes, t, type)} IN
    IF same # {}
    THEN [W |-> W, res |-> CHOOSE t \in same : \A u \in same : t <= u]
    ELSE [W |-> [W EXCEPT !.canonicalTypes = @ \cup {type}], res |-> type]

\* new IR::Type_Set / new IR::Type_Tuple
newType(W, kind, x, y) ==
    [W |-> Alloc(W, Node(kind, x, y, NoType, 0, "None", 0)), res |-> NewId(W)]

\* A tuple canonicalization that takes every component as it is
tupleComponent_asIs(W, t) == t

\* The component a tuple canonicalizes: a set component gives its element
tupleComponent(W, t) ==
    IF W.nodes[t].kind = "Type_Set" THEN W.nodes[t].a ELSE t

\* Container types: a Type_Parser, Type_Control or Type_Package node holds
\* its parameters (a, b, c); a Parameter node carries its declared type
\* (ty) and direction, and has its canonical type in the registry.
ContainerKinds == {"Type_Parser", "Type_Control", "Type_Package"}
Module(k) == [k |-> k]
ModuleTypeKinds == {"Type_Parser", "Type_Control", "Type_Package", "P4Parser", "P4Control"}

paramsOf(nd) ==
    (IF nd.a # 0 THEN <<nd.a>> ELSE <<>>) \o argsOf(nd)

\* TypeInference::canonicalizeParameters: a parameter whose canonical type
\* is not its declared type is replaced by a new one
RECURSIVE canonicalizeParameters(_, _, _)
canonicalizeParameters(W, params, vec) ==
    IF params = <<>> THEN [W |-> W, res |-> vec]
    ELSE LET q == Head(params)
             paramType == getTypeOf(W, q)
             changed == paramType # W.nodes[q].ty
             W1 == IF changed THEN Alloc(W, [W.nodes[q] EXCEPT !.ty = paramType]) ELSE W
             q1 == IF changed THEN NewId(W) ELSE q
         IN canonicalizeParameters(setType(W1, q1, paramType), Tail(params),
                                   Append(vec, q1))

\* A parameter check that never looks at module types
checkParameters_noForbid(W, paramList, forbidModules) ==
    LET bad == {i \in DOMAIN paramList :
                   /\ W.nodes[paramList[i]].dir # "None"
                   /\ getTypeOf(W, paramList[i]).k = "Type_Extern"}
        first == CHOOSE i \in bad : \A j \in bad : i <= j
    IN IF bad = {} THEN [W |-> W, ok |-> TRUE]
       ELSE [W |-> typeError(W, paramList[first],
                             "a parameter with an extern type cannot have a direction"),
             ok |-> FALSE]

\* TypeInference::checkParameters: stops at the first offending parameter
checkParameters(W, paramList, forbidModules) ==
    LET externDir(i) == /\ W.nodes[paramList[i]].dir # "None"
                        /\ getTypeOf(W, paramList[i]).k = "Type_Extern"
        module(i) == forbidModules /\ getTypeOf(W, paramList[i]).k \in ModuleTypeKinds
        bad == {i \in DOMAIN paramList : externDir(i) \/ module(i)}
        first == CHOOSE i \in bad : \A j \in bad : i <= j
    IN IF bad = {} THEN [W |-> W, ok |-> TRUE]
       ELSE [W |-> typeError(W, paramList[first],
                             IF externDir(first)
                             THEN "a parameter with an extern type cannot have a direction"
                             ELSE "parameter cannot have type"),
             ok |-> FALSE]

\* The Type_Parser / Type_Control / Type_Package branches of canonicalize
canonicalizeContainer(W, type) ==
    LET nd == W.nodes[type]
        params == paramsOf(nd)
        P == canonicalizeParameters(W, params, <<>>)
        pl == P.res
        C == IF nd.kind = "Type_Package" THEN [W |-> P.W, ok |-> TRUE]
             ELSE checkParameters(P.W, pl, TRUE)
        at(i) == IF i <= Len(pl) THEN pl[i] ELSE 0
    IN IF ~C.ok THEN [W |-> C.W, res |-> 0]
       ELSE IF pl # params
            THEN [W |-> Alloc(C.W, [nd EXCEPT !.a = at(1), !.b = at(2), !.c = at(3)]),
                  res |-> NewId(C.W)]
            ELSE [W |-> C.W, res |-> type]

\* TypeInference::canonicalize
RECURSIVE canonicalize(_, _)
canonicalize(W, type) ==
    IF type = 0 THEN [W |-> W, res |-> 0]
    ELSE
    LET exists == getTypeOf(W, type)
        nd == W.nodes[type]
    IN
    \* the registry entry of a type node is a Type_Type
    IF exists # NoType THEN [W |-> W, res |-> exists.type]
    ELSE IF nd.kind = "Type_Bits"
    THEN [W |-> W, res |-> Type_Bits_get(W, nd.ty.n, nd.ty.s)]
    ELSE IF nd.kind = "Type_Set"
    THEN LET E == canonicalize(W, nd.a) IN
         IF E.res = 0 THEN E
         ELSE IF E.res = nd.a THEN [W |-> E.W, res |-> type]
         ELSE newType(E.W, "Type_Set", E.res, 0)
    ELSE IF nd.kind = "Type_Tuple"
    THEN LET components == argsOf([b |-> nd.a, c |-> nd.b])
             anySet == \E i \in DOMAIN components :
                           tupleComponent(W, components[i]) # components[i]
             t1 == tupleComponent(W, components[1])
             F1 == canonicalize(W, t1)
             t2 == IF Len(components) > 1 THEN tupleComponent(W, components[2]) ELSE 0
             F2 == canonicalize(F1.W, t2)
             anyChange == t1 # F1.res \/ t2 # F2.res
         IN IF F1.res = 0 THEN F1
            ELSE IF Len(components) > 1 /\ F2.res = 0 THEN F2
            ELSE LET N == IF anyChange \/ anySet
                          THEN newType(F2.W, "Type_Tuple", F1.res, F2.res)
                          ELSE [W |-> F2.W, res |-> type]
                     C == getCanonical(N.W, N.res)
                 IN IF anySet THEN newType(C.W, "Type_Set", C.res, 0) ELSE C
    ELSE IF nd.kind \in ContainerKinds THEN canonicalizeContainer(W, type)
    ELSE [W |-> W, res |-> type]

\* TypeInference::setTypeType and the traversal of a type tree (children
\* first, then the handler on a clone of the node); learning a new
\* canonical type applies a nested TypeInference to it.
RECURSIVE setTypeType(_, _, _, _)
RECURSIVE visitType(_, _)
setTypeType(W, orig, type, learn) ==
    IF done(W, orig) THEN [W |-> W, res |-> type]
    ELSE LET C == canonicalize(W, orig) IN
         IF C.res = 0 THEN C
         ELSE LET W1 == IF C.res # orig /\ learn THEN visitType(C.W, C.res) ELSE C.W
                  tt == Type_Type(C.res)
              IN [W |-> setType(setType(W1, orig, tt), type, tt), res |-> C.res]

visitType(W, n) ==
    LET nd == W.nodes[n]
        Wa == IF nd.a # 0 THEN visitType(W, nd.a) ELSE W
        Wb == IF nd.b # 0 THEN visitType(Wa, nd.b) ELSE Wa
        W1 == Alloc(Wb, nd)
    IN setTypeType(W1, n, NewId(Wb), TRUE).W

\* The type terms of a source program and the nodes the parser builds
TBits == [k |-> "Bits"]
TSet(e) == [k |-> "Set", e |-> e]
TTuple(x, y) == [k |-> "Tuple", x |-> x, y |-> y]

RECURSIVE TypeTerms(_)
TypeTerms(d) ==
    IF d = 0 THEN {TBits}
    ELSE LET S == TypeTerms(d - 1) IN
         S \cup {TSet(t) : t \in S} \cup {TTuple(t, TBits) : t \in S}
           \cup {TTuple(t, TSet(TBits)) : t \in S}

RECURSIVE build(_, _)
build(W, term) ==
    IF term.k = "Bits"
    THEN [W |-> Alloc(W, Node("Type_Bits", 0, 0, Bits(8, FALSE), 0, "None", 0)),
          res |-> NewId(W)]
    ELSE IF term.k = "Set"
    THEN LET E == build(W, term.e) IN newType(E.W, "Type_Set", E.res, 0)
    ELSE LET X == build(W, term.x)
             Y == build(X.W, term.y)
         IN newType(Y.W, "Type_Tuple", X.res, Y.res)

\* TypeMap::updateMap: drop the entries of nodes that are no longer in the
\* program (the declarations and the returned statements).
updateMap(W, roots) ==
    LET keep(n) == n \in DeclIds \/ \E r \in roots : InTree(W.nodes, n, r)
    IN [W EXCEPT !.typeMap = [n \in DOMAIN W.typeMap |->
                                 IF keep(n) THEN W.typeMap[n] ELSE NoType],
                 !.lvals = {n \in W.lvals : keep(n)},
                 !.ctcs = {n \in W.ctcs : keep(n)}]

\* The readOnly test of end_apply: !(*node == *initialNode)
rootMutated(ns, prog) ==
    \E i \in DOMAIN prog : ~SameTree(ns, prog[i].res, prog[i].orig)

\* An end_apply without the readOnly assertion
endApplyFails_never(ro, ns, prog) == FALSE

endApplyFails(ro, ns, prog) == ro /\ rootMutated(ns, prog)

----------------------------------------------------------------------------
(* The traversal *)

Commit(W) ==
    /\ nodes' = W.nodes
    /\ typeMap' = W.typeMap
    /\ lvals' = W.lvals
    /\ ctcs' = W.ctcs
    /\ substs' = W.substs
    /\ errs' = W.errs
    /\ fresh' = W.fresh
    /\ uses' = W.uses
    /\ canonicalTypes' = W.canonicalTypes
    /\ methodArguments' = W.methodArguments
    /\ pc' = IF W.bug THEN "bug" ELSE pc
    /\ visits' = visits + 1

CanVisit == pc = "run" /\ visits < MaxVisits

NoAsg == [called |-> FALSE]

\* The kind-directed dispatch of the visitor
postorder(W, orig, cur) ==
    LET kind == W.nodes[orig].kind IN
    IF kind = "Constant" THEN postorder_Constant(W, orig, cur)
    ELSE IF kind = "PathExpression" THEN postorder_PathExpression(W, orig, cur)
    ELSE IF kind = "DefaultExpression" THEN postorder_DefaultExpression(W, orig, cur)
    ELSE IF kind = "Add" THEN binaryArith(W, orig, cur)
    ELSE IF kind = "Shl" THEN shift(W, orig, cur)
    ELSE IF kind = "StringLiteral" THEN postorder_StringLiteral(W, orig, cur)
    ELSE IF kind = "BoolLiteral" THEN postorder_BoolLiteral(W, orig, cur)
    ELSE IF kind = "Cast" THEN postorder_Cast(W, orig, cur)
    ELSE IF kind = "Mux" THEN postorder_Mux(W, orig, cur)
    ELSE IF kind = "Lss" THEN postorder_Relation(W, orig, cur, FALSE)
    ELSE IF kind = "Equ" THEN postorder_Relation(W, orig, cur, TRUE)
    ELSE [W |-> W, res |-> cur]

\* A leaf is visited: the original and its clone enter the heap.
VisitLeaf(kind, ty, v, decl) ==
    /\ CanVisit
    /\ Len(stack) < MaxStack
    /\ LET nd == Node(kind, 0, 0, ty, v, "None", decl)
           W0 == Alloc(Alloc(World, nd), nd)
           o == Len(nodes) + 1
           c == o + 1
           R == postorder(W0, o, c)
           res == Returned(R.W, o, c, R.res)
       IN /\ Commit(R.W)
          /\ stack' = Append(stack, [orig |-> o, res |-> res])
          /\ last' = [op |-> nd.kind, orig |-> o, cur |-> c, res |-> res,
                      done |-> FALSE, asg |-> NoAsg]
    /\ UNCHANGED <<program, readOnly, mapUpdated, canonCalls>>

VisitConstant ==
    \E ty \in ConstTypes, v \in ConstValues :
        VisitLeaf("Constant", ty, v, 0)

VisitPathExpression ==
    \E d \in VarDecls :
        VisitLeaf("PathExpression", NoType, 0, d)

\* The argument expressions of the calls: sized and unsized literals, an
\* l-value of the parameters' type and one of another type.
ArgConstTypes == {InfInt(1), Bits(8, FALSE)}
ArgDecls == {d \in VarDecls : Decls[d].kind = "Declaration_Variable" /\ ~Decls[d].ty.s}

VisitArgument ==
    \/ \E ty \in ArgConstTypes, v \in ConstValues :
          VisitLeaf("Constant", ty, v, 0)
    \/ \E d \in ArgDecls :
          VisitLeaf("PathExpression", NoType, 0, d)

\* A path that names an action or a method
VisitCallee ==
    \E d \in CalleeDecls :
        VisitLeaf("PathExpression", NoType, 0, d)

VisitDefaultExpression ==
    VisitLeaf("DefaultExpression", NoType, 0, 0)

\* A binary node is visited after its two operands.
VisitBinary(kind) ==
    /\ CanVisit
    /\ Len(stack) >= 2
    /\ LET l == stack[Len(stack) - 1]
           r == stack[Len(stack)]
           W0 == Alloc(Alloc(World, Node(kind, l.orig, r.orig, NoType, 0, "None", 0)),
                       Node(kind, l.res, r.res, NoType, 0, "None", 0))
           o == Len(nodes) + 1
           c == o + 1
           R == postorder(W0, o, c)
           res == Returned(R.W, o, c, R.res)
       IN /\ Commit(R.W)
          /\ stack' = Append(SubSeq(stack, 1, Len(stack) - 2), [orig |-> o, res |-> res])
          /\ last' = [op |-> kind, orig |-> o, cur |-> c, res |-> res,
                      done |-> FALSE, asg |-> NoAsg]
    /\ UNCHANGED <<program, readOnly, mapUpdated, canonCalls>>

VisitAdd == VisitBinary("Add")

VisitShl == VisitBinary("Shl")

VisitAssignmentStatement ==
    /\ CanVisit
    /\ Len(stack) = 2
    /\ Len(program) < MaxStmts
    /\ LET l == stack[1]
           r == stack[2]
           W0 == Alloc(Alloc(World,
                     Node("AssignmentStatement", l.orig, r.orig, NoType, 0, "None", 0)),
                     Node("AssignmentStatement", l.res, r.res, NoType, 0, "None", 0))
           o == Len(nodes) + 1
           c == o + 1
           R == postorder_AssignmentStatement(W0, o, c)
           res == Returned(R.W, o, c, R.res)
       IN /\ Commit(R.W)
          /\ stack' = <<>>
          /\ program' = Append(program, [orig |-> o, res |-> res])
          /\ last' = [op |-> "AssignmentStatement", orig |-> o, cur |-> c, res |-> res,
                      done |-> FALSE,
                      asg |-> [called |-> R.asg,
                               dest |-> getTypeOf(W0, l.res),
                               init |-> getTypeOf(W0, r.res),
                               src |-> r.res,
                               res |-> R.W.nodes[R.res].b,
                               err |-> R.W.errs # errs,
                               unified |-> R.W.unified]]
    /\ UNCHANGED <<readOnly, mapUpdated, canonCalls>>

\* The literals true and "..."
VisitBoolLiteral == VisitLeaf("BoolLiteral", NoType, 1, 0)
VisitStringLiteral == VisitLeaf("StringLiteral", NoType, 1, 0)

\* The destination types of the explicit casts and the types of the
\* literals they are applied to
CastTypes == {Bits(1, FALSE), Bits(1, TRUE), Bits(8, FALSE), Bits(8, TRUE),
              Bits(16, FALSE), Boolean}
CastOperandTypes == {Bits(1, FALSE), Bits(8, FALSE), Bits(8, TRUE), Bits(16, TRUE),
                     InfInt(1)}

VisitCastOperand ==
    \E ty \in CastOperandTypes : VisitLeaf("Constant", ty, 1, 0)

\* An explicit cast (T) e is visited after its operand
VisitCast ==
    /\ CanVisit
    /\ Len(stack) >= 1
    /\ \E dest \in CastTypes :
        LET top == Len(stack)
            e == stack[top]
            W0 == Alloc(Alloc(World, Node("Cast", e.orig, 0, dest, 0, "None", 0)),
                        Node("Cast", e.res, 0, dest, 0, "None", 0))
            o == Len(nodes) + 1
            cur == o + 1
            src == getTypeOf(World, e.res)
            R == postorder(W0, o, cur)
            res == Returned(R.W, o, cur, R.res)
        IN /\ Commit(R.W)
           /\ stack' = Append(SubSeq(stack, 1, top - 1), [orig |-> o, res |-> res])
           /\ last' = [op |-> "Cast", orig |-> o, cur |-> cur, res |-> res,
                       done |-> FALSE, asg |-> NoAsg,
                       cast |-> [dest |-> dest, src |-> src,
                                 legal |-> src # NoType /\ canCastBetween(dest, src),
                                 msgs |-> {x[2] : x \in R.W.errs \ errs}]]
    /\ UNCHANGED <<program, readOnly, mapUpdated, canonCalls>>

NoCall == [called |-> FALSE]

\* A call is visited after its method and its arguments (a call node holds
\* up to two arguments); inActionsList is the context the call sits in:
\* findContext<IR::Property>() names the "actions" property.
VisitMethodCallExpression ==
    /\ CanVisit
    /\ \E k \in {0, 1, 2}, inActionsList \in BOOLEAN :
        /\ Len(stack) >= k + 1
        /\ LET top == Len(stack)
               m == stack[top - k]
               a1 == IF k >= 1 THEN stack[top - k + 1] ELSE [orig |-> 0, res |-> 0]
               a2 == IF k >= 2 THEN stack[top] ELSE [orig |-> 0, res |-> 0]
               call(x, y, z) == [Node("MethodCallExpression", x, y, NoType, 0, "None", 0)
                                    EXCEPT !.c = z]
               W0 == Alloc(Alloc(World, call(m.orig, a1.orig, a2.orig)),
                           call(m.res, a1.res, a2.res))
               o == Len(nodes) + 1
               e == o + 1
               methodType == getTypeOf(W0, m.res)
               isAction == methodType.k = "Action"
               R == postorder_MethodCallExpression(preorder_MethodCallExpression(W0, e),
                                                   o, e, inActionsList)
               res == Returned(R.W, o, e, R.res)
           IN /\ Commit(R.W)
              /\ stack' = Append(SubSeq(stack, 1, top - k - 1), [orig |-> o, res |-> res])
              /\ last' = [op |-> "MethodCallExpression", orig |-> o, cur |-> e,
                          res |-> res, done |-> FALSE, asg |-> NoAsg,
                          call |-> IF isAction
                                   THEN [called |-> TRUE,
                                         inActionList |-> inActionsList,
                                         params |-> methodType.params,
                                         nargs |-> k,
                                         msgs |-> {x[2] : x \in R.W.errs \ errs},
                                         type |-> getTypeOf(R.W, res)]
                                   ELSE NoCall]
    /\ UNCHANGED <<program, readOnly, mapUpdated, canonCalls>>

ExpressionKinds == {"Constant", "PathExpression", "DefaultExpression", "Add", "Shl", "Cast"}

\* The nodes of the trees the traversal holds
InProgram(n) ==
    \E i \in DOMAIN stack : InTree(nodes, n, stack[i].res)

\* A node that already has a type is visited again (a shared node or a
\* later pass over the tree): the handler runs on a fresh clone.
Revisit ==
    /\ CanVisit
    /\ \E n \in DOMAIN nodes :
        /\ nodes[n].kind \in ExpressionKinds
        /\ InProgram(n)
        /\ done(World, n)
        /\ LET W0 == Alloc(World, nodes[n])
               c == Len(nodes) + 1
               R == postorder(W0, n, c)
           IN /\ Commit(R.W)
              /\ last' = [op |-> nodes[n].kind, orig |-> n, cur |-> c,
                          res |-> Returned(R.W, n, c, R.res),
                          done |-> TRUE, asg |-> NoAsg]
    /\ UNCHANGED <<stack, program, readOnly, mapUpdated, canonCalls>>

\* The type nodes of the heap
TypeKinds == {"Type_Bits", "Type_Set", "Type_Tuple"}

CanCanonicalize == pc = "run" /\ Len(canonCalls) < MaxCanonCalls

CommitCanon(W, op, arg, res) ==
    /\ Commit(W)
    /\ canonCalls' = Append(canonCalls, [arg |-> arg, res |-> res])
    /\ last' = [op |-> op, orig |-> arg, res |-> res, done |-> FALSE, asg |-> NoAsg]
    /\ UNCHANGED <<stack, program, readOnly, mapUpdated>>

\* A type of the source program is canonicalized
Canonicalize ==
    /\ CanCanonicalize
    /\ canonCalls = <<>>
    /\ \E term \in TypeTerms(MaxDepth) :
          LET B == build(World, term)
              C == canonicalize(B.W, B.res)
          IN CommitCanon(C.W, "canonicalize", B.res, C.res)

\* A type of the source program is visited: setTypeType on each of its nodes
VisitType ==
    /\ CanCanonicalize
    /\ canonCalls = <<>>
    /\ \E term \in TypeTerms(MaxDepth) :
          LET B == build(World, term)
              W == visitType(B.W, B.res)
          IN CommitCanon(W, "setTypeType", B.res, getTypeOf(W, B.res).type)

\* A type node that already exists is canonicalized
CanonicalizeAgain ==
    /\ CanCanonicalize
    /\ canonCalls # <<>>
    /\ \E n \in DOMAIN nodes :
          /\ nodes[n].kind \in TypeKinds
          /\ LET C == canonicalize(World, n)
             IN CommitCanon(C.W, "canonicalize", n, C.res)

\* The parser builds a second type equal to an earlier one; it is canonicalized
CanonicalizeCopy ==
    /\ CanCanonicalize
    /\ canonCalls # <<>>
    /\ \E term \in TypeTerms(MaxDepth) :
          LET B == build(World, term)
              C == canonicalize(B.W, B.res)
          IN /\ SameTree(B.W.nodes, B.res, canonCalls[1].arg)
             /\ CommitCanon(C.W, "canonicalize", B.res, C.res)

\* TypeInference::end_apply
EndApply ==
    /\ pc = "run"
    /\ stack = <<>>
    /\ Len(program) > 0
    /\ IF endApplyFails(readOnly, nodes, program)
       THEN /\ pc' = "bug"
            /\ UNCHANGED <<nodes, typeMap, lvals, ctcs, substs, errs, mapUpdated>>
       ELSE LET W == updateMap(World, {program[i].res : i \in DOMAIN program}) IN
            /\ pc' = "done"
            /\ mapUpdated' = TRUE
            /\ nodes' = W.nodes /\ typeMap' = W.typeMap /\ lvals' = W.lvals
            /\ ctcs' = W.ctcs /\ substs' = W.substs /\ errs' = W.errs
    /\ last' = [op |-> "end_apply", done |-> FALSE, asg |-> NoAsg]
    /\ UNCHANGED <<stack, program, readOnly, visits, fresh, uses,
                   canonicalTypes, canonCalls, methodArguments>>

----------------------------------------------------------------------------
Init ==
    /\ nodes = Decls
    /\ typeMap = [i \in DeclIds |-> IF Decls[i].kind = "Type_Bits" THEN NoType
                                     ELSE Decls[i].ty]
    /\ lvals = {}
    /\ ctcs = {}
    /\ substs = {}
    /\ errs = {}
    /\ stack = <<>>
    /\ program = <<>>
    /\ readOnly \in BOOLEAN
    /\ pc = "run"
    /\ mapUpdated = FALSE
    /\ visits = 0
    /\ fresh = Cardinality(DeclaredTypeVars)
    /\ uses = <<>>
    /\ canonicalTypes = {}
    /\ canonCalls = <<>>
    /\ methodArguments = <<>>
    /\ last = [op |-> "init", done |-> FALSE, asg |-> NoAsg]

\* The state after construction over another list of declarations
InitOver(decls) ==
    /\ nodes = decls
    /\ typeMap = [i \in DOMAIN decls |-> IF decls[i].kind = "Type_Bits" THEN NoType
                                          ELSE decls[i].ty]
    /\ lvals = {}
    /\ ctcs = {}
    /\ substs = {}
    /\ errs = {}
    /\ stack = <<>>
    /\ program = <<>>
    /\ readOnly = TRUE
    /\ pc = "run"
    /\ mapUpdated = FALSE
    /\ visits = 0
    /\ fresh = Cardinality(DeclaredTypeVars)
    /\ uses = <<>>
    /\ canonicalTypes = {}
    /\ canonCalls = <<>>
    /\ methodArguments = <<>>
    /\ last = [op |-> "init", done |-> FALSE, asg |-> NoAsg]

\* One run of the inference over a statement
Next ==
    \/ VisitConstant
    \/ VisitPathExpression
    \/ VisitAdd
    \/ VisitShl
    \/ VisitAssignmentStatement
    \/ EndApply

Spec == Init /\ [][Next]_vars

\* Visits of expressions, including visits of already-typed nodes
NextRevisit ==
    \/ VisitConstant
    \/ VisitPathExpression
    \/ VisitDefaultExpression
    \/ VisitAdd
    \/ Revisit

SpecRevisit == Init /\ [][NextRevisit]_vars

\* The type-checking pass builds its TypeInference with readOnly = true
InitCall == Init /\ readOnly

\* Canonicalization of types
NextCanon ==
    \/ Canonicalize
    \/ VisitType
    \/ CanonicalizeAgain
    \/ CanonicalizeCopy

SpecCanon == InitCall /\ [][NextCanon]_vars

\* The parameters of the container types: <<declared type, canonical type,
\* direction>>; a declared type name differs from its canonical type.
ParamDecls ==
    {<<Bits(8, FALSE), Bits(8, FALSE), "In">>,
     <<Module("Type_Name"), Module("Type_Control"), "None">>,
     <<Module("Type_Parser"), Module("Type_Parser"), "None">>,
     <<Module("Type_Package"), Module("Type_Package"), "None">>,
     <<Module("P4Parser"), Module("P4Parser"), "None">>,
     <<Module("P4Control"), Module("P4Control"), "None">>,
     <<Module("Type_Extern"), Module("Type_Extern"), "None">>,
     <<Module("Type_Extern"), Module("Type_Extern"), "In">>}

\* postorder(IR::Parameter*): the parameter gets its canonical type
VisitParameter ==
    /\ CanVisit
    /\ Len(stack) < MaxParams
    /\ \E d \in ParamDecls :
        LET W0 == Alloc(World, Node("Parameter", 0, 0, d[1], 0, d[3], 0))
            o == Len(nodes) + 1
        IN /\ Commit(setType(W0, o, d[2]))
           /\ stack' = Append(stack, [orig |-> o, res |-> o])
           /\ last' = [op |-> "Parameter", orig |-> o, cur |-> o, res |-> o,
                       done |-> FALSE, asg |-> NoAsg]
    /\ UNCHANGED <<program, readOnly, mapUpdated, canonCalls>>

\* A container type over the pending parameters is canonicalized
CanonicalizeContainer ==
    /\ CanVisit
    /\ \E kind \in ContainerKinds :
        LET at(i) == IF i <= Len(stack) THEN stack[i].res ELSE 0
            W0 == Alloc(World, [Node(kind, at(1), at(2), NoType, 0, "None", 0)
                                   EXCEPT !.c = at(3)])
            o == Len(nodes) + 1
            C == canonicalize(W0, o)
        IN /\ Commit(C.W)
           /\ stack' = <<>>
           /\ last' = [op |-> "canonicalizeContainer", orig |-> o, cur |-> o,
                       res |-> C.res, done |-> FALSE, asg |-> NoAsg,
                       container |->
                           [kind |-> kind,
                            paramTypes |-> [i \in DOMAIN stack |->
                                               getTypeOf(World, stack[i].res)],
                            msgs |-> {x[2] : x \in C.W.errs \ errs}]]
    /\ UNCHANGED <<program, readOnly, mapUpdated, canonCalls>>

\* Canonicalization of parser, control and package types
NextContainer ==
    \/ VisitParameter
    \/ CanonicalizeContainer

SpecContainer == InitCall /\ [][NextContainer]_vars

----------------------------------------------------------------------------
(* Tables: the actions list and the default_action property *)

\* What a visit leaves behind: the registry, the original and the node that
\* stands in its place
visited(R, o) == [W |-> R.W, orig |-> o, res |-> Returned(R.W, o, o + 1, R.res)]

\* One expression leaf is visited (the original and its clone enter the heap)
visitLeaf(W, kind, ty, v, decl) ==
    LET nd == Node(kind, 0, 0, ty, v, "None", decl)
    IN visited(postorder(Alloc(Alloc(W, nd), nd), Len(W.nodes) + 1, Len(W.nodes) + 2),
               Len(W.nodes) + 1)

\* The arguments <<kind, type, declaration>> of a call are visited in order
RECURSIVE visitArgs(_, _, _)
RECURSIVE visitedArg(_, _, _)
visitedArg(L, args, acc) ==
    visitArgs(L.W, args, Append(acc, [orig |-> L.orig, res |-> L.res]))

visitArgs(W, args, acc) ==
    IF args = <<>> THEN [W |-> W, res |-> acc]
    ELSE visitedArg(visitLeaf(W, Head(args)[1], Head(args)[2], 1, Head(args)[3]),
                    Tail(args), acc)

\* The call node over a visited method M and visited arguments A
visitCallNode(M, A, inActionsList) ==
    LET at(i, orig) == IF i <= Len(A.res)
                       THEN (IF orig THEN A.res[i].orig ELSE A.res[i].res) ELSE 0
        call(x, y, z) == [Node("MethodCallExpression", x, y, NoType, 0, "None", 0)
                             EXCEPT !.c = z]
        W0 == Alloc(Alloc(A.W, call(M.orig, at(1, TRUE), at(2, TRUE))),
                    call(M.res, at(1, FALSE), at(2, FALSE)))
        o == Len(A.W.nodes) + 1
    IN visited(postorder_MethodCallExpression(preorder_MethodCallExpression(W0, o + 1),
                                              o, o + 1, inActionsList), o)

visitCallArgs(M, args, inActionsList) ==
    visitCallNode(M, visitArgs(M.W, args, <<>>), inActionsList)

\* A call decl(args) is visited: the method, the arguments, then the call
visitCall(W, decl, args, inActionsList) ==
    visitCallArgs(visitLeaf(W, "PathExpression", NoType, 0, decl), args, inActionsList)

\* An argument comparison that finds every pair of arguments equal
firstMismatch_none(W, aa, da) == 0

\* The loop over the arguments of the actions-list entry: the first position
\* whose argument is not the same expression as the default_action's, else
\* 0; a position the default_action call does not have counts as one.
firstMismatch(W, aa, da) ==
    LET bad == {i \in DOMAIN aa : i > Len(da) \/ ~SameTree(W.nodes, aa[i], da[i])}
    IN IF bad = {} THEN 0 ELSE CHOOSE i \in bad : \A j \in bad : i <= j

\* postorder(IR::Property*) for default_action.  value: the expression of
\* the property (0: not an expression value); hasList: the table has an
\* actions property; entries: the expressions of its elements.
postorder_Property(W, prop, hasList, entries) ==
    LET value == W.nodes[prop].a
        type == getTypeOf(W, value)
        vnd == W.nodes[value]
        W1 == IF type.params # <<>>
              THEN typeError(W, prop, "has some unbound arguments") ELSE W
        defdecl == W.nodes[vnd.a].decl
        named == {i \in DOMAIN entries :
                     W.nodes[W.nodes[entries[i]].a].decl = defdecl}
        ale == entries[CHOOSE i \in named : \A j \in named : i <= j]
        aa == argsOf(W.nodes[ale])
        da == argsOf(vnd)
        W2 == IF Len(aa) > Len(da) THEN typeError(W1, value, "not enough arguments")
              ELSE W1
        m == firstMismatch(W2, aa, da)
    IN
    IF value = 0 THEN typeError(W, prop, "table property should be an action")
    ELSE IF type = NoType THEN getType(W, value)
    ELSE IF type.k # "Action"
    THEN typeError(W, prop, "table property should be an action")
    ELSE IF ~hasList THEN typeError(W1, prop, "no action list")
    \* CHECK_NULL(default_call); the method of a call is a path
    ELSE IF vnd.kind # "MethodCallExpression" THEN BUG(W1)
    ELSE IF W.nodes[vnd.a].kind # "PathExpression" THEN BUG(W1)
    ELSE IF named = {} THEN typeError(W1, vnd.a, "not present in action list")
    \* CHECK_NULL(actionListCall)
    ELSE IF W.nodes[ale].kind # "MethodCallExpression" THEN BUG(W1)
    ELSE IF m = 0 THEN W2
    \* arguments->at(i) past the end of the default_action's arguments
    ELSE IF m > Len(da) THEN BUG(W2)
    ELSE typeError(W2, da[m], "argument does not match declaration in actions list")

\* The arguments of the calls of a table: two variables and a literal
ArgX == <<"PathExpression", NoType, 1>>
ArgZ == <<"PathExpression", NoType, 2>>
ArgC == <<"Constant", InfInt(1), 0>>
EntryArgs == {<<>>, <<ArgX>>, <<ArgZ>>, <<ArgX, ArgC>>}
DefaultArgs == EntryArgs \cup {<<ArgX, ArgX>>}
TableActions == {5, 6}

\* The values of default_action: a call, a path, a literal
DefaultValues ==
    {<<"call", d, args>> : d \in TableActions, args \in DefaultArgs}
        \cup {<<"path", 6, <<>>>>, <<"const", 0, <<>>>>}

\* The actions lists: none, or one entry
ActionLists ==
    {<<>>} \cup {<<d, args>> : d \in TableActions, args \in EntryArgs}

\* A table is visited: the entry of its actions list, the value of its
\* default_action, then the default_action property.
\* The default_action property over the visited actions-list entry E and
\* the visited value D
visitProperty(E, D, hasList) ==
    LET prop == Len(D.W.nodes) + 1
        entries == IF hasList THEN <<E.res>> ELSE <<>>
    IN [W |-> postorder_Property(
                  Alloc(D.W, Node("Property", D.res, 0, NoType, 0, "None", 0)),
                  prop, hasList, entries),
        before |-> D.W.errs, prop |-> prop, value |-> D.res, entries |-> entries]

visitDefault(E, dv, hasList) ==
    visitProperty(E,
                  IF dv[1] = "call" THEN visitCall(E.W, dv[2], dv[3], FALSE)
                  ELSE IF dv[1] = "path"
                  THEN visitLeaf(E.W, "PathExpression", NoType, 0, dv[2])
                  ELSE visitLeaf(E.W, "Constant", Bits(8, FALSE), 1, 0),
                  hasList)

\* A table: its actions list al (one entry, or none) and its default_action dv
visitTable(W, al, dv) ==
    visitDefault(IF al = <<>> THEN [W |-> W, orig |-> 0, res |-> 0]
                 ELSE visitCall(W, al[1], al[2], TRUE),
                 dv, al # <<>>)

TableVisited(T) ==
    /\ Commit(T.W)
    /\ program' = Append(program, [orig |-> T.prop, res |-> T.prop])
    /\ last' = [op |-> "Property", orig |-> T.prop, cur |-> T.prop, res |-> T.prop,
                done |-> FALSE, asg |-> NoAsg,
                prop |-> [value |-> T.value, entries |-> T.entries,
                          msgs |-> {x[2] : x \in T.W.errs \ T.before},
                          bug |-> T.W.bug]]

VisitTable ==
    /\ CanVisit
    /\ Len(program) < MaxStmts
    /\ \E al \in ActionLists, dv \in DefaultValues :
           TableVisited(visitTable(World, al, dv))
    /\ UNCHANGED <<stack, readOnly, mapUpdated, canonCalls>>

NextTable == VisitTable

SpecTable == InitCall /\ [][NextTable]_vars

----------------------------------------------------------------------------
(* Extern instances: abstract methods and their implementations *)

\* Unification of two method types: pointwise over the parameters and the
\* return type
solveMethodTypes(dest, src) ==
    IF Len(dest.params) # Len(src.params) \/ Len(dest.tps) # Len(src.tps) THEN Failure
    ELSE solveAll([i \in DOMAIN dest.params |-> <<dest.params[i].ty, src.params[i].ty>>]
                      \o <<<<dest.ret, src.ret>>>>,
                  Identity)

\* The abstract methods of an extern <<name, isAbstract, type>>, by name
abstractMethods(methods) ==
    {methods[i][1] : i \in {j \in DOMAIN methods : methods[j][2]}}
methodType(methods, name) ==
    methods[CHOOSE i \in DOMAIN methods : methods[i][1] = name][3]

\* A matching of implementations that accepts a function of any type
implementationFits_any(methtype, ftype) == Identity

\* unify(inst, methtype, ftype, true) of checkAbstractMethods
implementationFits(methtype, ftype) ==
    IF methtype = ftype THEN Identity ELSE solveMethodTypes(methtype, ftype)

\* The loop of checkAbstractMethods over the components <<kind, name,
\* isGeneric, type>> of the initializer; virt: the abstract methods that
\* have no implementation yet
RECURSIVE matchComponents(_, _, _, _, _)
matchComponents(W, inst, methods, components, virt) ==
    IF components = <<>> THEN [W |-> W, ok |-> TRUE, virt |-> virt]
    ELSE LET d == Head(components)
             fail(msg) == [W |-> typeError(W, inst, msg), ok |-> FALSE, virt |-> virt]
         IN IF d[1] # "Function"
            THEN matchComponents(W, inst, methods, Tail(components), virt)
            ELSE IF d[3]
            THEN fail("abstract method implementations cannot be generic")
            ELSE IF d[2] \notin virt THEN fail("no matching abstract method")
            ELSE LET tvs == implementationFits(methodType(methods, d[2]), d[4])
                 IN IF ~tvs.ok THEN fail("Cannot unify")
                    \* BUG_CHECK(tvs->isIdentity())
                    ELSE IF ~isIdentity(tvs)
                    THEN [W |-> BUG(W), ok |-> FALSE, virt |-> virt]
                    ELSE matchComponents(W, inst, methods, Tail(components),
                                         virt \ {d[2]})

\* TypeInference::checkAbstractMethods.  hasInit: the instance has an
\* initializer.
checkAbstractMethods(W, inst, methods, hasInit, components) ==
    LET virt == abstractMethods(methods) IN
    IF virt = {} /\ ~hasInit THEN [W |-> W, ok |-> TRUE]
    ELSE IF virt = {} /\ hasInit
    THEN [W |-> typeError(W, inst, "instance initializers for extern without abstract methods"),
          ok |-> FALSE]
    ELSE IF ~hasInit
    THEN [W |-> typeError(W, inst, "must declare abstract methods"), ok |-> FALSE]
    ELSE LET M == matchComponents(W, inst, methods, components, virt)
         IN IF ~M.ok THEN [W |-> M.W, ok |-> FALSE]
            ELSE IF M.virt # {}
            THEN [W |-> typeError(M.W, inst, "abstract method not implemented"),
                  ok |-> FALSE]
            ELSE [W |-> M.W, ok |-> TRUE]

\* Method types of the externs and of the functions that implement them
MT8 == Type_Method(<<>>, Bits(8, FALSE), <<Param("x", "In", Bits(8, FALSE))>>)
MT16 == Type_Method(<<>>, Bits(16, FALSE), <<Param("x", "In", Bits(8, FALSE))>>)
MTVar == Type_Method(<<>>, TypeVar(1), <<Param("x", "In", Bits(8, FALSE))>>)

\* The extern types: sequences of methods <<name, isAbstract, type>>
ExternMethods ==
    {<<>>,
     <<<<"m1", FALSE, MT8>>>>,
     <<<<"m1", TRUE, MT8>>>>,
     <<<<"m1", TRUE, MT8>>, <<"m2", TRUE, MT16>>>>,
     <<<<"m1", TRUE, MT8>>, <<"m2", TRUE, MTVar>>>>}

\* The components of an initializer <<kind, name, isGeneric, type>>
InitComponents ==
    {<<"Function", "m1", FALSE, MT8>>,
     <<"Function", "m1", FALSE, MT16>>,
     <<"Function", "m1", TRUE, MT8>>,
     <<"Function", "m2", FALSE, MT16>>,
     <<"Declaration_Variable", "v", FALSE, NoType>>}

\* Initializers of up to two components
Initializers ==
    {<<>>} \cup {<<d>> : d \in InitComponents}
           \cup {<<d, e>> : d \in InitComponents, e \in InitComponents}

\* preorder(IR::Declaration_Instance*) on an extern instance: its abstract
\* methods are checked against its initializer
VisitDeclarationInstance ==
    /\ CanVisit
    /\ Len(program) < MaxStmts
    /\ \E methods \in ExternMethods, hasInit \in BOOLEAN, components \in Initializers :
        /\ ~hasInit => components = <<>>
        /\ LET W0 == Alloc(World, Node("Declaration_Instance", 0, 0, NoType, 0, "None", 0))
               inst == Len(nodes) + 1
               R == checkAbstractMethods(W0, inst, methods, hasInit, components)
           IN /\ Commit(R.W)
              /\ program' = Append(program, [orig |-> inst, res |-> inst])
              /\ last' = [op |-> "Declaration_Instance", orig |-> inst, cur |-> inst,
                          res |-> inst, done |-> FALSE, asg |-> NoAsg,
                          inst |-> [methods |-> methods, hasInit |-> hasInit,
                                    components |-> components, ok |-> R.ok,
                                    bug |-> R.W.bug,
                                    msgs |-> {x[2] : x \in R.W.errs \ errs}]]
    /\ UNCHANGED <<stack, readOnly, mapUpdated, canonCalls>>

NextInstance == VisitDeclarationInstance

SpecInstance == InitCall /\ [][NextInstance]_vars

\* The constructed types: an extern with a constructor E(bit<8> x), a
\* generic extern, a package P(bit<8> x), a type without constructors, and
\* a type whose check failed
ConstructedTypes ==
    LET x == <<Param("x", "None", Bits(8, FALSE))>> IN
    {Type_Extern(<<>>, Type_Method(<<>>, NoType, x)),
     Type_Extern(<<TypeVar(1)>>, Type_Method(<<>>, NoType, x)),
     Type_Package(Type_Method(<<>>, Module("Type_Package"), x)),
     Bits(8, FALSE),
     NoType}

\* A constructor call T(args) is visited after its arguments
VisitConstructorCallExpression ==
    /\ CanVisit
    /\ \E k \in {0, 1}, type \in ConstructedTypes :
        /\ Len(stack) >= k
        /\ LET top == Len(stack)
               a1 == IF k >= 1 THEN stack[top] ELSE [orig |-> 0, res |-> 0]
               W0 == Alloc(Alloc(World,
                               Node("ConstructorCallExpression", 0, a1.orig, type, 0, "None", 0)),
                           Node("ConstructorCallExpression", 0, a1.res, type, 0, "None", 0))
               o == Len(nodes) + 1
               e == o + 1
               R == postorder_ConstructorCallExpression(W0, o, e)
               res == Returned(R.W, o, e, R.res)
           IN /\ Commit(R.W)
              /\ stack' = Append(SubSeq(stack, 1, top - k), [orig |-> o, res |-> res])
              /\ last' = [op |-> "ConstructorCallExpression", orig |-> o, cur |-> e,
                          res |-> res, done |-> FALSE, asg |-> NoAsg,
                          msgs |-> {x[2] : x \in R.W.errs \ errs}]
    /\ UNCHANGED <<program, readOnly, mapUpdated, canonCalls>>

\* Constructor calls over literals and variables
NextConstructor ==
    \/ VisitArgument
    \/ VisitConstructorCallExpression

SpecConstructor == InitCall /\ [][NextConstructor]_vars

\* The operands of the conditional expressions
MuxConstTypes == {InfInt(1), InfInt(2), Bits(8, FALSE)}

VisitMuxOperand ==
    \/ \E ty \in MuxConstTypes : VisitLeaf("Constant", ty, 1, 0)
    \/ VisitLeaf("PathExpression", NoType, 0, 2)

\* A conditional e0 ? e1 : e2 is visited after its three operands
VisitMux ==
    /\ CanVisit
    /\ Len(stack) >= 3
    /\ LET top == Len(stack)
           e0 == stack[top - 2]
           e1 == stack[top - 1]
           e2 == stack[top]
           mux(x, y, z) == [Node("Mux", x, y, NoType, 0, "None", 0) EXCEPT !.c = z]
           W0 == Alloc(Alloc(World, mux(e0.orig, e1.orig, e2.orig)),
                       mux(e0.res, e1.res, e2.res))
           o == Len(nodes) + 1
           e == o + 1
           R == postorder(W0, o, e)
           res == Returned(R.W, o, e, R.res)
       IN /\ Commit(R.W)
          /\ stack' = Append(SubSeq(stack, 1, top - 3), [orig |-> o, res |-> res])
          /\ last' = [op |-> "Mux", orig |-> o, cur |-> e, res |-> res,
                      done |-> FALSE, asg |-> NoAsg,
                      mux |-> [types |-> <<getTypeOf(World, e0.res),
                                          getTypeOf(World, e1.res),
                                          getTypeOf(World, e2.res)>>,
                               msgs |-> {x[2] : x \in R.W.errs \ errs}]]
    /\ UNCHANGED <<program, readOnly, mapUpdated, canonCalls>>

\* Conditional expressions over literals and variables
NextMux ==
    \/ VisitMuxOperand
    \/ VisitBoolLiteral
    \/ VisitMux

SpecMux == InitCall /\ [][NextMux]_vars

\* The operands of the shifts: constants with and without a width, of
\* either sign, and variables of unsigned and of signed type
ShiftConstTypes == {InfInt(1), Bits(8, TRUE)}
ShiftConstValues == {-1, 1}
ShiftDecls == {d \in VarDecls : Decls[d].kind = "Declaration_Variable" /\ Decls[d].ty.n = 16}

VisitShiftOperand ==
    \/ \E ty \in ShiftConstTypes, v \in ShiftConstValues : VisitLeaf("Constant", ty, v, 0)
    \/ \E d \in ShiftDecls : VisitLeaf("PathExpression", NoType, 0, d)

\* Shifts over constants, variables and Boolean literals
NextShift ==
    \/ VisitShiftOperand
    \/ VisitBoolLiteral
    \/ VisitShl

SpecShift == InitCall /\ [][NextShift]_vars

\* The declarations of the comparisons: varbit<32> v; extern void h();
RelDecls == <<
    Node("Declaration_Variable", 0, 0, Varbits(32), 0, "None", 0),
    Node("Method", 0, 0, Type_Method(<<>>, Type_Void, <<>>), 0, "None", 0) >>

InitRelation == InitOver(Decls \o RelDecls)

\* The operands of the comparisons: a literal without a width, variables of
\* type bit<8>, int<16> and varbit<32>, and the void method
RelOperandDecls == {1, 3, Len(Decls) + 1, Len(Decls) + 2}

VisitRelOperand ==
    \/ VisitLeaf("Constant", InfInt(1), 1, 0)
    \/ \E d \in RelOperandDecls : VisitLeaf("PathExpression", NoType, 0, d)

VisitLss == VisitBinary("Lss")

VisitEqu == VisitBinary("Equ")

\* Comparisons over literals, variables, sums and calls
NextRelation ==
    \/ VisitRelOperand
    \/ VisitBoolLiteral
    \/ VisitAdd
    \/ VisitMethodCallExpression
    \/ VisitLss
    \/ VisitEqu

SpecRelation == InitRelation /\ [][NextRelation]_vars

\* A call that already has a type is visited again: preorder, then the
\* postorder on a fresh clone
RevisitMethodCallExpression ==
    /\ CanVisit
    /\ \E i \in DOMAIN stack :
        /\ nodes[stack[i].orig].kind = "MethodCallExpression"
        /\ done(World, stack[i].orig)
        /\ LET n == stack[i].orig
               c == Len(nodes) + 1
               R == postorder_MethodCallExpression(
                        preorder_MethodCallExpression(Alloc(World, nodes[n]), c),
                        n, c, FALSE)
           IN /\ Commit(R.W)
              /\ last' = [op |-> "MethodCallExpression", orig |-> n, cur |-> c,
                          res |-> Returned(R.W, n, c, R.res),
                          done |-> TRUE, asg |-> NoAsg, call |-> NoCall]
    /\ UNCHANGED <<stack, program, readOnly, mapUpdated, canonCalls>>

\* Calls of actions and methods, including visits of already-typed calls
NextCallAgain ==
    \/ VisitArgument
    \/ VisitCallee
    \/ VisitMethodCallExpression
    \/ RevisitMethodCallExpression

SpecCallAgain == InitCall /\ [][NextCallAgain]_vars

\* The declarations of the l-value rules: header H { bit<8> f; }
\* H[2] hs; in H[2] hin; out H h; bit<8> c (no direction); const bit<8> k;
\* an instance of a package; inout bit<8> x
LValDecls == <<
    Node("Declaration_Variable", 0, 0,
         Type_Stack(Type_Header(<<[name |-> Member_f, ty |-> Bits(8, FALSE)]>>), 2),
         0, "None", 0),
    Node("Parameter", 0, 0,
         Type_Stack(Type_Header(<<[name |-> Member_f, ty |-> Bits(8, FALSE)]>>), 2),
         0, "In", 0),
    Node("Parameter", 0, 0,
         Type_Header(<<[name |-> Member_f, ty |-> Bits(8, FALSE)]>>), 0, "Out", 0),
    Node("Parameter", 0, 0, Bits(8, FALSE), 0, "None", 0),
    Node("Declaration_Constant", 0, 0, Bits(8, FALSE), 0, "None", 0),
    Node("Declaration_Instance", 0, 0, Module("Type_Package"), 0, "None", 0),
    Node("Parameter", 0, 0, Bits(8, FALSE), 0, "InOut", 0) >>

InitLValue == InitOver(Decls \o LValDecls)

\* The path an expression starts from
VisitLValuePath ==
    /\ stack = <<>>
    /\ \E d \in DOMAIN LValDecls : VisitLeaf("PathExpression", NoType, 0, Len(Decls) + d)

\* The indexes: literals without a width
IndexValues == {-1, 0}

VisitIndex ==
    /\ stack # <<>>
    /\ \E v \in IndexValues : VisitLeaf("Constant", InfInt(1), v, 0)

\* A node with one, two or three children is visited after them
VisitOperation(kind, k, member, inControl) ==
    /\ CanVisit
    /\ Len(stack) >= k
    /\ LET top == Len(stack)
           at(i) == IF i <= k THEN stack[top - k + i] ELSE [orig |-> 0, res |-> 0]
           node(x, y, z) == [Node(kind, x, y, NoType, member, "None", 0) EXCEPT !.c = z]
           W0 == Alloc(Alloc(World, node(at(1).orig, at(2).orig, at(3).orig)),
                       node(at(1).res, at(2).res, at(3).res))
           o == Len(nodes) + 1
           e == o + 1
           R == IF kind = "Member" THEN postorder_Member(W0, o, e, inControl)
                ELSE IF kind = "Slice" THEN postorder_Slice(W0, o, e)
                ELSE postorder_ArrayIndex(W0, o, e)
       IN /\ Commit(R.W)
          /\ stack' = Append(SubSeq(stack, 1, top - k), [orig |-> o, res |-> Returned(R.W, o, e, R.res)])
          /\ last' = [op |-> kind, orig |-> o, cur |-> e, res |-> Returned(R.W, o, e, R.res),
                      done |-> FALSE, asg |-> NoAsg]
    /\ UNCHANGED <<program, readOnly, mapUpdated, canonCalls>>

VisitMember ==
    \E member \in {Member_f, Member_g, Stack_next, Stack_last}, inControl \in BOOLEAN :
        VisitOperation("Member", 1, member, inControl)

VisitSlice == VisitOperation("Slice", 3, 0, FALSE)

VisitArrayIndex == VisitOperation("ArrayIndex", 2, 0, FALSE)

\* Paths, members, slices and indexed stacks
NextLValue ==
    \/ VisitLValuePath
    \/ VisitIndex
    \/ VisitMember
    \/ VisitSlice
    \/ VisitArrayIndex

SpecLValue == InitLValue /\ [][NextLValue]_vars

\* The widths a solved substitution gives the unsized literals
SubstWidths == {8, 16}

\* ConstantTypeSubstitution::convert applied to the expression built last,
\* under a substitution that binds the literals' type variable
ConvertExpression ==
    /\ CanVisit
    /\ stack # <<>>
    /\ typeMap[stack[Len(stack)].res] # NoType
    /\ \E w \in SubstWidths :
        LET top == Len(stack)
            n == stack[top].res
            R == CTS_convert(World, Binding(InfInt(1), Bits(w, FALSE)), n)
        IN /\ Commit(R.W)
           /\ stack' = [stack EXCEPT ![top] = [orig |-> n, res |-> R.res]]
           /\ last' = [op |-> "convert", orig |-> n, cur |-> R.res, res |-> R.res,
                       done |-> FALSE, asg |-> NoAsg]
    /\ UNCHANGED <<program, readOnly, mapUpdated, canonCalls>>

\* L-value expressions and their rewrite
NextSubst ==
    \/ VisitLValuePath
    \/ VisitIndex
    \/ VisitMember
    \/ VisitSlice
    \/ VisitArrayIndex
    \/ ConvertExpression

SpecSubst == InitLValue /\ [][NextSubst]_vars

\* The selectors: their types as the visit of the list expression left them
SelectorTypes == {<<Bits(8, FALSE)>>, <<Bits(8, FALSE), Bits(16, FALSE)>>, <<InfInt(2)>>}

VisitSelector ==
    /\ CanVisit
    /\ stack = <<>>
    /\ \E components \in SelectorTypes :
        LET W0 == Alloc(World, Node("ListExpression", 0, 0, NoType, 0, "None", 0))
            o == Len(nodes) + 1
        IN /\ Commit(setType(W0, o, SelectTuple(components)))
           /\ stack' = <<[orig |-> o, res |-> o]>>
           /\ last' = [op |-> "ListExpression", orig |-> o, cur |-> o, res |-> o,
                       done |-> FALSE, asg |-> NoAsg]
    /\ UNCHANGED <<program, readOnly, mapUpdated, canonCalls>>

\* The case labels: literals with and without a width, and default
KeysetTypes == {InfInt(1), Bits(8, FALSE), Bits(16, FALSE)}

VisitKeyset ==
    /\ stack # <<>>
    /\ \/ \E ty \in KeysetTypes : VisitLeaf("Constant", ty, 1, 0)
       \/ VisitLeaf("DefaultExpression", NoType, 0, 0)

\* A select expression is visited after its selector and its k cases
VisitSelectExpression ==
    /\ CanVisit
    /\ Len(stack) >= 2
    /\ LET k == Len(stack) - 1
           case(i, x) == Node("SelectCase", x, 0, NoType, i, "None", 0)
           W1 == Alloc(Alloc(World, case(1, stack[2].orig)), case(1, stack[2].res))
           W2 == IF k = 2 THEN Alloc(Alloc(W1, case(2, stack[3].orig)), case(2, stack[3].res))
                 ELSE W1
           c1 == Len(nodes) + 1
           c2 == IF k = 2 THEN Len(nodes) + 3 ELSE 0
           sc(c) == IF c = 0 THEN 0 ELSE Returned(W2, c, c + 1, c + 1)
           node(x, y, z) == [Node("SelectExpression", x, y, NoType, 0, "None", 0) EXCEPT !.c = z]
           W0 == Alloc(Alloc(W2, node(stack[1].orig, c1, c2)),
                       node(stack[1].res, sc(c1), sc(c2)))
           o == Len(W2.nodes) + 1
           e == o + 1
           R == postorder_SelectExpression(W0, o, e)
       IN /\ Commit(R.W)
          /\ stack' = <<[orig |-> o, res |-> Returned(R.W, o, e, R.res)]>>
          /\ last' = [op |-> "SelectExpression", orig |-> o, cur |-> e,
                      res |-> Returned(R.W, o, e, R.res), done |-> FALSE, asg |-> NoAsg]
    /\ UNCHANGED <<program, readOnly, mapUpdated, canonCalls>>

\* Select expressions
NextSelect ==
    \/ VisitSelector
    \/ VisitKeyset
    \/ VisitSelectExpression

SpecSelect == InitCall /\ [][NextSelect]_vars

\* The types the match kind of a key element was given by its visit
MatchTypes == {Type_MatchKind, Bits(8, FALSE), NoType}

\* A key element is visited after its expression and its match kind
VisitKeyElement ==
    /\ CanVisit
    /\ Len(stack) >= 1
    /\ \E mk \in MatchTypes, nullDeref \in {"fault", "survived"} :
        LET top == Len(stack)
            W0 == setType(Alloc(World, Node("PathExpression", 0, 0, NoType, 0, "None", 0)),
                          Len(nodes) + 1, mk)
            W1 == Alloc(W0, Node("KeyElement", stack[top].res, Len(nodes) + 1,
                                 NoType, 0, "None", 0))
            elem == Len(nodes) + 2
        IN /\ Commit(postorder_KeyElement(W1, elem, nullDeref))
           /\ stack' = SubSeq(stack, 1, top - 1)
           /\ last' = [op |-> "KeyElement", orig |-> elem, cur |-> elem, res |-> elem,
                       done |-> FALSE, asg |-> NoAsg]
    /\ UNCHANGED <<program, readOnly, mapUpdated, canonCalls>>

\* Table keys over variables and sums
NextKey ==
    \/ VisitPathExpression
    \/ VisitAdd
    \/ VisitKeyElement

SpecKey == InitCall /\ [][NextKey]_vars

\* Literals
NextLiteral ==
    \/ VisitConstant
    \/ VisitBoolLiteral
    \/ VisitStringLiteral

SpecLiteral == InitCall /\ [][NextLiteral]_vars

\* Explicit casts of literals
NextCast ==
    \/ VisitCastOperand
    \/ VisitBoolLiteral
    \/ VisitCast

SpecCast == InitCall /\ [][NextCast]_vars

\* Calls of actions and methods
NextCall ==
    \/ VisitArgument
    \/ VisitCallee
    \/ VisitMethodCallExpression

SpecCall == InitCall /\ [][NextCall]_vars

----------------------------------------------------------------------------
(* Properties *)

AssignmentChecked == last.op = "AssignmentStatement" /\ last.asg.called

\* C1: an assignment whose source and destination are Bits types of
\* different widths is always reported as a type error.
C1_WidthMismatchRejected ==
    (AssignmentChecked /\ last.asg.dest.k = "Bits" /\ last.asg.init.k = "Bits"
        /\ last.asg.dest.n # last.asg.init.n)
    => last.asg.err

\* C4: visiting a node whose original already has a type (done() is true)
\* changes no type entry, no l-value flag and no compile-time-constant flag.
C4_DoneVisitIsNoOp ==
    [][last'.done =>
        /\ \A n \in DOMAIN typeMap' :
              typeMap'[n] = (IF n \in DOMAIN typeMap THEN typeMap[n] ELSE NoType)
        /\ lvals' = lvals
        /\ ctcs' = ctcs]_vars

\* C5: a readOnly run that ends normally returns a root structurally equal
\* to its input, and a readOnly run whose root differs is stopped before
\* updateMap is performed.
C5_ReadOnlyRootUnchanged ==
    /\ (readOnly /\ pc = "done")
          => \A i \in DOMAIN program :
                SameTree(nodes, program[i].res, program[i].orig)
    /\ (readOnly /\ pc # "run" /\ rootMutated(nodes, program))
          => (pc = "bug" /\ ~mapUpdated)

C5_Witness ==
    /\ readOnly /\ pc = "bug" /\ last.op = "end_apply"
    /\ rootMutated(nodes, program) /\ ~mapUpdated

\* C6 (as stated): the left-hand side of every assignment statement of the
\* output is flagged isLValue.
C6_EveryTargetIsLValue ==
    \A i \in DOMAIN program : nodes[program[i].res].a \in lvals

StatementErrors(i) ==
    {e \in errs : e[1] \in {program[i].orig, nodes[program[i].res].a}}

\* C6 (amended): the left-hand side of every assignment statement of the
\* output for which no error was reported is flagged isLValue.
C6_AcceptedTargetIsLValue ==
    \A i \in DOMAIN program :
        StatementErrors(i) = {} => nodes[program[i].res].a \in lvals

C6_Witness ==
    /\ Len(program) > 0 /\ errs = {}
    /\ nodes[program[1].res].a \in lvals
    /\ program[1].res # program[1].orig

AssignmentSucceeded ==
    AssignmentChecked /\ ~last.asg.err /\ pc # "bug" /\ last.asg.dest.k = "Bits"

\* C7 (as stated): after a successful assignment check against a Bits
\* destination no Constant of the returned source has type InfInt.
C7_NoInfIntConstantLeft ==
    AssignmentSucceeded
    => \A c \in ConstantsOf(nodes, last.asg.res) : typeMap[c].k # "InfInt"

\* C7 (amended): after a successful assignment check of a source of InfInt
\* type against a Bits destination, no Constant of the returned source
\* still has the source's InfInt type: each such literal now has the
\* destination type.
C7_SourceTypedConstantsNarrowed ==
    (AssignmentSucceeded /\ last.asg.init.k = "InfInt")
    => \A c \in ConstantsOf(nodes, last.asg.res) :
          /\ typeMap[c] # last.asg.init
          /\ typeMap[c].k = "Bits" => typeMap[c] = nodes[c].ty

C7_Witness ==
    /\ AssignmentSucceeded /\ last.asg.init.k = "InfInt"
    /\ nodes[last.asg.res].kind = "Add"
    /\ \A c \in ConstantsOf(nodes, last.asg.res) : typeMap[c] = last.asg.dest
    /\ Cardinality(ConstantsOf(nodes, last.asg.res)) = 2

\* C8: in the assignment check, when the source type differs from the
\* destination type and canCastBetween holds, the result is a new Cast
\* around the source, typed with the destination type and compile-time
\* constant exactly when the source was, and no unification is attempted;
\* when the types are identical the source is returned and the registry
\* is left as it was.
C8_CastOrUnchanged ==
    [][(last'.op = "AssignmentStatement" /\ last'.asg.called) =>
        LET g == last'.asg IN
        /\ (g.init # g.dest /\ canCastBetween(g.dest, g.init)) =>
              /\ g.res \notin DOMAIN nodes
              /\ nodes'[g.res].kind = "Cast"
              /\ nodes'[g.res].a = g.src
              /\ typeMap'[g.res] = g.dest
              /\ (g.res \in ctcs') <=> (g.src \in ctcs)
              /\ ~g.unified
              /\ ~g.err
        /\ (g.init = g.dest) =>
              /\ g.res = g.src
              /\ \A n \in DOMAIN typeMap' :
                    typeMap'[n] = (IF n \in DOMAIN typeMap THEN typeMap[n] ELSE NoType)
              /\ lvals' = lvals /\ ctcs' = ctcs /\ substs' = substs
       ]_vars

C8_Witness ==
    /\ AssignmentChecked
    /\ last.asg.init # last.asg.dest
    /\ canCastBetween(last.asg.dest, last.asg.init)
    /\ nodes[last.asg.res].kind = "Cast"
    /\ last.asg.res \in ctcs
----------------------------------------------------------------------------
(* Fresh type variables per use *)

CallUses == {i \in DOMAIN uses : uses[i].kind = "call"}

----------------------------------------------------------------------------
(* Action calls *)

ActionCalled == last.op = "MethodCallExpression" /\ last.call.called

UnboundParams ==
    {last.call.params[i] : i \in (last.call.nargs + 1)..Len(last.call.params)}
BoundParams ==
    {last.call.params[i] :
        i \in {j \in DOMAIN last.call.params : j <= last.call.nargs}}

MustBeBound == "must be bound"
CannotBeBound == "cannot be bound: it is set by the control plane"

----------------------------------------------------------------------------
(* Canonicalization *)

\* C2 (as stated): canonicalize is idempotent: the canonical form of a
\* canonical type is that same type.
C2_CanonicalizeIdempotent ==
    \A i \in DOMAIN canonCalls :
        canonCalls[i].res # 0 =>
            canonicalize(World, canonCalls[i].res).res = canonCalls[i].res

\* C3 (as stated): structurally equal types have the very same canonical
\* type node.
C3_CanonicalIdentity ==
    \A i, j \in DOMAIN canonCalls :
        (/\ SameTree(nodes, canonCalls[i].arg, canonCalls[j].arg)
         /\ canonCalls[i].res # 0 /\ canonCalls[j].res # 0)
            => canonCalls[i].res = canonCalls[j].res

-----------------------------------------------------------------------------
(* C11: the type of a partial action call *)

TooManyArguments == "Too many arguments for action"

\* The declared parameters a call with k arguments leaves unbound
UnboundTail(params, k) == SubSeq(params, k + 1, Len(params))

CouldNotFindType == "Could not find type"

-----------------------------------------------------------------------------
(* C12: the cast rule *)

isBits(t) == t.k = "Bits"
isBit1(t) == t = Bits(1, FALSE)

\* The rule as stated: the same type, two Bits types of equal size or equal
\* signedness, or Boolean with Bits of size 1 unsigned (either way round)
CastRule(d, s) ==
    \/ d = s
    \/ isBits(d) /\ isBits(s) /\ (d.n = s.n \/ d.s = s.s)
    \/ d = Boolean /\ isBit1(s)
    \/ s = Boolean /\ isBit1(d)

CastChecked == last.op = "Cast" /\ last.cast.src # NoType

\* C12: canCastBetween(dest, src) is true exactly under the stated rule,
\* and gives the same answer with its two arguments exchanged.
C12_CanCastRule ==
    CastChecked =>
        /\ last.cast.legal <=> CastRule(last.cast.dest, last.cast.src)
        /\ last.cast.legal <=> canCastBetween(last.cast.src, last.cast.dest)

\* A cast between Bits types that differ in size and agree in signedness,
\* and a cast from Boolean, were checked
C12_Witness ==
    /\ CastChecked
    /\ last.cast.legal
    /\ last.cast.src = Boolean
    /\ \E i \in DOMAIN nodes :
          /\ nodes[i].kind = "Cast"
          /\ nodes[i].ty = Bits(8, TRUE)
          /\ typeMap[i] = Bits(8, TRUE)
          /\ typeMap[nodes[i].a] = Bits(16, TRUE)

-----------------------------------------------------------------------------
(* C13: module-typed parameters of container types *)

ContainerCanonicalized == last.op = "canonicalizeContainer"

HasModuleParam ==
    \E i \in DOMAIN last.container.paramTypes :
        last.container.paramTypes[i].k \in ModuleTypeKinds

\* C13 (as stated): canonicalizing a Parser, Control or Package type one of
\* whose parameters has a Parser, Control, Package, program-parser or
\* program-control type yields no canonical type and reports an error.
C13_ModuleParamRejected ==
    (ContainerCanonicalized /\ HasModuleParam) =>
        last.res = 0 /\ last.container.msgs # {}

\* C13 (amended): that holds for Parser and Control types; a Package type
\* with such a parameter and no directed extern parameter is canonicalized
\* without an error.
C13_ModuleParamRejectedInParserControl ==
    (ContainerCanonicalized /\ HasModuleParam) =>
        IF last.container.kind \in {"Type_Parser", "Type_Control"}
        THEN last.res = 0 /\ last.container.msgs # {}
        ELSE last.res # 0 /\ last.container.msgs = {}

\* A Control type with a parameter of a Parser type was rejected
C13_Witness ==
    /\ ContainerCanonicalized
    /\ last.container.kind = "Type_Control"
    /\ Len(last.container.paramTypes) = 2
    /\ last.container.paramTypes[1] = Bits(8, FALSE)
    /\ last.container.paramTypes[2] = Module("Type_Parser")
    /\ last.res = 0
    /\ last.container.msgs = {"parameter cannot have type"}

-----------------------------------------------------------------------------
(* C14: tuples with set components *)

\* The type term a type node stands for
RECURSIVE TermOf(_, _)
TermOf(ns, n) ==
    IF ns[n].kind = "Type_Bits" THEN TBits
    ELSE IF ns[n].kind = "Type_Set" THEN TSet(TermOf(ns, ns[n].a))
    ELSE TTuple(TermOf(ns, ns[n].a), TermOf(ns, ns[n].b))

\* The canonical form as stated: a tuple with a set component becomes the
\* set of the tuple of the canonical element types (of the set components)
\* and canonical forms (of the others); any other tuple stays a tuple.
RECURSIVE CanonTerm(_)
CanonTerm(t) ==
    IF t.k = "Bits" THEN t
    ELSE IF t.k = "Set" THEN TSet(CanonTerm(t.e))
    ELSE LET comp(u) == IF u.k = "Set" THEN CanonTerm(u.e) ELSE CanonTerm(u)
             tuple == TTuple(comp(t.x), comp(t.y))
         IN IF t.x.k = "Set" \/ t.y.k = "Set" THEN TSet(tuple) ELSE tuple

TupleCalls == {i \in DOMAIN canonCalls : nodes[canonCalls[i].arg].kind = "Type_Tuple"}

\* C14: canonicalizing a tuple type with a Set component gives
\* Set(Tuple(...)) over the canonical element types and canonical forms of
\* the components; a tuple type without a Set component gives a Tuple.
C14_TupleOfSets ==
    \A i \in TupleCalls :
        LET arg == TermOf(nodes, canonCalls[i].arg)
            res == canonCalls[i].res
        IN /\ res # 0
           /\ TermOf(nodes, res) = CanonTerm(arg)
           /\ nodes[res].kind = IF arg.x.k = "Set" \/ arg.y.k = "Set"
                                THEN "Type_Set" ELSE "Type_Tuple"

\* tuple<set<bit<8>>, set<bit<8>>> became set<tuple<bit<8>, bit<8>>>, and a
\* tuple without set components was canonicalized too
C14_Witness ==
    /\ \E i \in TupleCalls :
          /\ TermOf(nodes, canonCalls[i].arg) = TTuple(TSet(TBits), TSet(TBits))
          /\ TermOf(nodes, canonCalls[i].res) = TSet(TTuple(TBits, TBits))
    /\ \E i \in TupleCalls :
          nodes[canonCalls[i].res].kind = "Type_Tuple"

-----------------------------------------------------------------------------
(* C15: literals *)

LiteralKinds == {"Constant", "BoolLiteral", "StringLiteral"}

LiteralType(nd) ==
    IF nd.kind = "BoolLiteral" THEN Boolean
    ELSE IF nd.kind = "StringLiteral" THEN Type_String
    ELSE nd.ty

\* C15 (as stated): after the visit of a Boolean, String or integer literal
\* the literal (the original node and the returned one) has the
\* corresponding type in the registry and is marked compile-time constant.
C15_LiteralTypedAndConstant ==
    last.op \in LiteralKinds =>
        \A n \in {last.orig, last.res} :
            /\ typeMap[n] = LiteralType(nodes[n])
            /\ n \in ctcs

-----------------------------------------------------------------------------
(* C16: the default_action property *)

PropertyAccepted ==
    last.op = "Property" /\ last.prop.msgs = {} /\ ~last.prop.bug

\* The call of the default_action agrees with an entry of the actions list:
\* the same declaration, and each argument of the entry equal to the
\* argument of the call at its position
MatchesEntry(value, entry) ==
    /\ nodes[nodes[entry].a].decl = nodes[nodes[value].a].decl
    /\ \A i \in DOMAIN argsOf(nodes[entry]) :
          /\ i <= Len(argsOf(nodes[value]))
          /\ SameTree(nodes, argsOf(nodes[entry])[i], argsOf(nodes[value])[i])

\* C16: a default_action property that raises no error has as its value a
\* call of Action type without unbound parameters, whose action is that of
\* an entry of the actions list whose arguments it repeats position by
\* position.
C16_AcceptedDefaultAction ==
    PropertyAccepted =>
        LET value == last.prop.value IN
        /\ nodes[value].kind = "MethodCallExpression"
        /\ typeMap[value].k = "Action"
        /\ typeMap[value].params = <<>>
        /\ \E i \in DOMAIN last.prop.entries : MatchesEntry(value, last.prop.entries[i])

\* actions = { act(x); } default_action = act(x, 1) was accepted
C16_Witness ==
    /\ PropertyAccepted
    /\ Len(last.prop.entries) = 1
    /\ Len(argsOf(nodes[last.prop.entries[1]])) = 1
    /\ Len(argsOf(nodes[last.prop.value])) = 2
    /\ nodes[nodes[last.prop.value].a].decl = 5

-----------------------------------------------------------------------------
(* C17: abstract methods *)

InstanceChecked == last.op = "Declaration_Instance"

\* The rule as stated, on the inputs of the check: the functions of the
\* initializer and the abstract methods of the extern
AbstractRule(methods, hasInit, components) ==
    LET abstract == {i \in DOMAIN methods : methods[i][2]}
        funcs == {i \in DOMAIN components : components[i][1] = "Function"}
        matches(f, m) ==
            /\ components[f][2] = methods[m][1]
            /\ (methods[m][3] = components[f][4]
                \/ solveMethodTypes(methods[m][3], components[f][4]) = Identity)
    IN \/ abstract = {} /\ ~hasInit
       \/ /\ hasInit
          /\ abstract # {}
          /\ \A f \in funcs : ~components[f][3] /\ \E m \in abstract : matches(f, m)
          /\ \A f, g \in funcs : components[f][2] = components[g][2] => f = g
          /\ \A m \in abstract : \E f \in funcs : matches(f, m)

\* C17: checkAbstractMethods succeeds exactly when the extern has no
\* abstract method and the instance no initializer, or the initializer's
\* functions are non-generic and implement, one each and with the same type,
\* all the abstract methods of the extern; every other outcome that is not
\* a fatal check reports an error.
C17_AbstractMethodsRule ==
    InstanceChecked =>
        /\ last.inst.ok <=>
               AbstractRule(last.inst.methods, last.inst.hasInit, last.inst.components)
        /\ last.inst.ok => last.inst.msgs = {} /\ ~last.inst.bug
        /\ (~last.inst.ok /\ ~last.inst.bug) => last.inst.msgs # {}

\* Two abstract methods were implemented by two functions
C17_Witness ==
    /\ InstanceChecked
    /\ last.inst.ok
    /\ Len(last.inst.methods) = 2
    /\ Len(last.inst.components) = 2

-----------------------------------------------------------------------------
(* C18: constructor calls *)

\* C18 (as stated): every visited constructor call, the original node and
\* the returned one, is marked compile-time constant whatever the outcome
\* of the check of its constructed type and arguments.
C18_ConstructorCallIsConstant ==
    last.op = "ConstructorCallExpression" =>
        last.orig \in ctcs /\ last.res \in ctcs

-----------------------------------------------------------------------------
(* C19: the conditional expression *)

MuxVisited == last.op = "Mux"
MuxTyped == typeMap[last.orig] # NoType /\ typeMap[last.res] # NoType
MuxUntyped == typeMap[last.orig] = NoType /\ typeMap[last.res] = NoType

\* The two arms unify
ArmsUnify(t1, t2) == t1 # NoType /\ t2 # NoType /\ (t1 = t2 \/ solve(t1, t2).ok)

\* C19 (as stated): a conditional gets a type only if its condition is
\* Boolean, its arms unify and at least one arm has a Bits type; otherwise
\* an error is reported and it gets no type.
C19_MuxNeedsBitsArm ==
    MuxVisited =>
        LET t == last.mux.types IN
        IF t[1] = Boolean /\ ArmsUnify(t[2], t[3]) /\ (t[2].k = "Bits" \/ t[3].k = "Bits")
        THEN TRUE
        ELSE MuxUntyped /\ last.mux.msgs # {}

\* C19 (amended): a conditional gets a type exactly if its condition is
\* Boolean, its arms unify and the arms are not both unsized integers;
\* otherwise an error is reported and it gets no type.
C19_MuxNeedsSizedArm ==
    MuxVisited =>
        LET t == last.mux.types IN
        IF t[1] = Boolean /\ ArmsUnify(t[2], t[3])
              /\ ~(t[2].k = "InfInt" /\ t[3].k = "InfInt")
        THEN MuxTyped
        ELSE MuxUntyped /\ last.mux.msgs # {}

\* true ? 1 : 8w1 got the type bit<8> and its unsized arm was narrowed
C19_Witness ==
    /\ MuxVisited
    /\ last.mux.types = <<Boolean, InfInt(1), Bits(8, FALSE)>>
    /\ typeMap[last.res] = Bits(8, FALSE)
    /\ typeMap[nodes[last.res].b] = Bits(8, FALSE)
    /\ last.mux.msgs = {}

-----------------------------------------------------------------------------
(* C20: shifts *)

ShiftVisited == last.op = "Shl"
ShiftLeftType == typeMap[nodes[last.cur].a]
ShiftRightType == typeMap[nodes[last.cur].b]
ShiftRight == nodes[nodes[last.cur].b]

\* The right operand is unsigned: of unsigned Bits type, or an unsized
\* constant that is not negative
ShiftAmountUnsigned ==
    \/ ShiftRightType.k = "Bits" /\ ~ShiftRightType.s
    \/ ShiftRightType.k = "InfInt" /\ ShiftRight.kind = "Constant" /\ ShiftRight.v >= 0

ShiftRejected ==
    /\ typeMap[last.orig] = NoType
    /\ typeMap[last.res] = NoType
    /\ \E x \in errs : x[1] \in {last.orig, last.cur}

\* C20: a shift gets a type, that of its left operand, only if the left
\* operand is of Bits type and the right operand is unsigned; a right
\* operand of any other type is rejected with an error.
C20_ShiftOperandRule ==
    ShiftVisited /\ ShiftLeftType # NoType /\ ShiftRightType # NoType =>
        IF ShiftLeftType.k = "Bits" /\ ShiftAmountUnsigned
        THEN typeMap[last.res] \in {NoType, ShiftLeftType}
        ELSE ShiftRejected

-----------------------------------------------------------------------------
(* C21: +, -, * *)

ArithVisited == last.op = "Add"
ArithLeftType == typeMap[nodes[last.cur].a]
ArithRightType == typeMap[nodes[last.cur].b]
ArithTyped(t) == pc # "bug" /\ typeMap[last.orig] = t /\ typeMap[last.res] = t

\* The operand of the returned node is a constant of type t
ArithNarrowed(operand, t) ==
    /\ pc # "bug"
    /\ nodes[operand].kind = "Constant"
    /\ nodes[operand].ty = t
    /\ typeMap[operand] = t

\* C21: for +, -, *: two Bits operands are accepted iff their types match;
\* an InfInt operand next to a Bits operand, literal or not, is replaced by
\* a constant of the Bits type, which is the type of the result; two InfInt
\* operands give an InfInt result.
C21_ArithOperandRule ==
    ArithVisited /\ ArithLeftType # NoType /\ ArithRightType # NoType =>
        LET l == ArithLeftType
            r == ArithRightType
        IN /\ (l.k = "Bits" /\ r.k = "Bits") =>
                  (IF l = r THEN ArithTyped(l)
                   ELSE typeMap[last.res] = NoType /\ pc # "bug")
           /\ (l.k = "InfInt" /\ r.k = "Bits") =>
                  ArithTyped(r) /\ ArithNarrowed(nodes[last.res].a, r)
           /\ (l.k = "Bits" /\ r.k = "InfInt") =>
                  ArithTyped(l) /\ ArithNarrowed(nodes[last.res].b, l)
           /\ (l.k = "InfInt" /\ r.k = "InfInt") =>
                  pc # "bug" /\ typeMap[last.res].k = "InfInt"

-----------------------------------------------------------------------------
(* C22, C23: comparisons *)

RelLeft == nodes[last.cur].a
RelRight == nodes[last.cur].b
RelOperandsTyped == typeMap[RelLeft] # NoType /\ typeMap[RelRight] # NoType

\* The operand types once an InfInt literal has taken the Bits type of the
\* other operand
RelLeftType ==
    IF /\ typeMap[RelLeft].k = "InfInt"
       /\ nodes[RelLeft].kind = "Constant"
       /\ typeMap[RelRight].k = "Bits"
    THEN typeMap[RelRight] ELSE typeMap[RelLeft]
RelRightType ==
    IF /\ typeMap[RelRight].k = "InfInt"
       /\ nodes[RelRight].kind = "Constant"
       /\ typeMap[RelLeft].k = "Bits"
    THEN typeMap[RelLeft] ELSE typeMap[RelRight]

RelBoolean == typeMap[last.orig] = Boolean /\ typeMap[last.res] = Boolean
RelRejected ==
    /\ typeMap[last.orig] = NoType
    /\ typeMap[last.res] = NoType
    /\ \E x \in errs : x[1] >= last.orig

\* C22: an ordering comparison has type Boolean exactly when, once an
\* InfInt literal operand has taken the other operand's Bits type, both
\* operand types are the same Bits type; otherwise an error is reported and
\* no type is recorded.
C22_OrderingRule ==
    last.op = "Lss" /\ RelOperandsTyped =>
        IF RelLeftType.k = "Bits" /\ RelRightType = RelLeftType
        THEN RelBoolean
        ELSE RelRejected

VoidComparisonAccepted ==
    /\ last.op = "Equ"
    /\ typeMap[RelLeft] = Type_Void
    /\ typeMap[RelRight] = Type_Void
    /\ RelBoolean

-----------------------------------------------------------------------------
(* C25: the stack of expected argument counts *)

\* C25: the visit of a method call, preorder and postorder, leaves the
\* stack of expected argument counts as deep as it found it, whether or not
\* the call already had a type.
C25_ArgumentStackBalanced ==
    [][last'.op = "MethodCallExpression" => methodArguments' = methodArguments]_vars

-----------------------------------------------------------------------------
(* C24: l-values *)

\* The declarations whose paths are l-values
StorageDecl(d) ==
    \/ nodes[d].kind = "Declaration_Variable"
    \/ nodes[d].kind = "Parameter" /\ nodes[d].dir \in {"InOut", "Out"}

\* n is an expression of a form that may be an l-value
LeftValueForm(n) ==
    LET nd == nodes[n] IN
    \/ nd.kind = "PathExpression" /\ StorageDecl(nd.decl)
    \/ /\ nd.kind = "Member"
       /\ typeMap[nd.a].k = "Header" \/ (typeMap[nd.a].k = "Stack" /\ nd.v = Stack_next)
       /\ nd.a \in lvals
    \/ nd.kind \in {"Slice", "ArrayIndex"} /\ nd.a \in lvals

\* C24: an expression marked l-value is a path to a variable or to an out
\* or inout parameter, or a field access, bit slice, stack index or stack
\* next whose receiver is an l-value; paths to in and direction-less
\* parameters, to constants and to instances, and stack last, never are.
C24_LeftValueForms ==
    \A n \in lvals : LeftValueForm(n)

\* hs.next.f is an l-value: a field of the next element of a stack variable
C24_Witness ==
    /\ last.op = "Member"
    /\ nodes[last.cur].v = Member_f
    /\ nodes[nodes[last.cur].a].kind = "Member"
    /\ nodes[nodes[last.cur].a].v = Stack_next
    /\ last.res \in lvals
    /\ typeMap[last.res] = Bits(8, FALSE)

-----------------------------------------------------------------------------
(* C26: missing types *)

\* C26: a rule that finds the type of a child missing from the registry
\* returns its node without using the missing type, so a missing type is
\* never a fatal failure.
C26_MissingTypeIsNotFatal ==
    (last.op = "KeyElement" /\ typeMap[nodes[last.cur].a] = NoType) => pc # "bug"

-----------------------------------------------------------------------------
(* C27: the constant-type substitution rewrite *)

\* C27: an expression node created by the constant-type substitution has
\* the recorded type, the compile-time-constant flag and the l-value flag
\* of the node it replaces; a narrowed Constant has the bound type instead.
C27_RewriteKeepsTypeAndFlags ==
    (last.op = "convert" /\ last.res # last.orig) =>
        /\ nodes[last.orig].kind = "Constant" \/ typeMap[last.res] = typeMap[last.orig]
        /\ (last.res \in ctcs) <=> (last.orig \in ctcs)
        /\ (last.res \in lvals) <=> (last.orig \in lvals)

-----------------------------------------------------------------------------
(* C28: flags and types *)

\* C28: an expression marked compile-time constant or l-value has a type
\* recorded; no rule sets a flag on an expression it then rejects without
\* recording a type.
C28_FlaggedExpressionIsTyped ==
    \A n \in lvals \cup ctcs : typeMap[n] # NoType

-----------------------------------------------------------------------------
(* C29: the arguments read from the default_action call *)

\* The default_action call was compared with an entry of the actions list
\* that has more arguments than the call
LongerEntryCompared ==
    /\ last.op = "Property"
    /\ Len(last.prop.entries) = 1
    /\ nodes[last.prop.value].kind = "MethodCallExpression"
    /\ typeMap[last.prop.value].k = "Action"
    /\ nodes[nodes[last.prop.entries[1]].a].decl = nodes[nodes[last.prop.value].a].decl
    /\ Len(argsOf(nodes[last.prop.entries[1]])) > Len(argsOf(nodes[last.prop.value]))

\* C29: the comparison of a default_action call with its actions-list
\* entry reads no argument of the call at an index past the call's last
\* argument, also when the entry has more arguments than the call.
C29_NoReadPastDefaultArguments ==
    LongerEntryCompared => ~last.prop.bug

-----------------------------------------------------------------------------
(* C30: the cases of the returned select expression *)

SelectVisited == last.op = "SelectExpression"

\* The cases of the select expression given to the rule and of the one it
\* returned
InputCases == argsOf(nodes[last.cur])
ReturnedCases == argsOf(nodes[last.res])

\* C30: the select expression returned by the inference has one valid case
\* node per input case, in the same order, also when a case label does not
\* match the selector type: no case is missing (null).
C30_ReturnedCasesValid ==
    SelectVisited =>
        /\ Len(ReturnedCases) = Len(InputCases)
        /\ \A i \in DOMAIN ReturnedCases :
              /\ ReturnedCases[i] # NullCase
              /\ nodes[ReturnedCases[i]].v = nodes[InputCases[i]].v

====
